---- MODULE Spec2Model ----
(***************************************************************************)
(* Stressly: the session execution loop of test.js with its circuit        *)
(* breaker and retry executor.  Several virtual-user sessions run the      *)
(* default function concurrently against one circuitBreaker object; a      *)
(* session yields to the others wherever the code blocks: while the        *)
(* transport call of executeEndpoint is in flight and while it sleeps      *)
(* (retry backoff, think time) or waits for its next iteration.            *)
(* Everything between two blocking calls is one step.                      *)
(* The second variant of the runner in test.js (makeRequest and the        *)
(* MetricsTracker of utils.js) and the weighted selectors of utils.js are  *)
(* modelled next to it, each under a specification of its own.             *)
(***************************************************************************)
EXTENDS Integers, Sequences, FiniteSets, TLC

\* ---- bounds of the model ----
MaxTime == 2        \* the clock runs from 0 to MaxTime
MaxRequests == 3    \* requests that get past the breaker check, all sessions

\* the concurrent virtual-user sessions
Sessions == {1, 2}

\* the inputs tried: circuitBreaker.minSampleSize, scenario.retry.maxRetries
\* and the number of requests of one iteration
MinSampleSizes == {1, 2}
MaxRetriesValues == {0, 1}
RequestCounts == {1, 2}

\* a session running alone is tried with every maxRetries up to this and with
\* more backoffMs values
MaxRetriesAlone == 3
BackoffValuesAlone == {1, 2, 3}

\* circuitBreaker.threshold is a fraction; it is kept as num/den so that
\* errorCount / total >= threshold is decided exactly.
Thresholds ==
  { [num |-> 0, den |-> 1], [num |-> 1, den |-> 2], [num |-> 1, den |-> 1] }

\* circuitBreaker.resetAfter and scenario.retry.backoffMs values tried, in
\* clock ticks
ResetAfterValues == {2}
BackoffValues == {1}

\* what one call of executeFunc (executeEndpoint) can do: raise an error, or
\* return a result; a returned result is null or carries a response status.
ErrorValues == {"ETIMEDOUT", "ECONNRESET"}
NullResult == -1
StatusCodes == {0, 200, 500}
ResultValues == {NullResult} \cup StatusCodes

VARIABLES
  circuitBreaker,    \* the circuitBreaker object (test.js:44)
  scenario,          \* scenario.retry of the active scenario
  requestSequence,   \* test.js:55
  sessionErrors,     \* test.js:56
  sessionSuccesses,  \* test.js:57
  now,               \* Date.now()
  pc,                \* per session: where the session is blocked
  requestsToMake,    \* per session: the loop bound of the iteration
  i,                 \* per session: the loop index of the iteration
  retryCount,        \* per session: retryCount of the executeWithRetry frame
  attempts,          \* per session: calls of executeFunc in this execute
  sleeps,            \* per session: backoff sleeps taken in this execute
  lastThrown,        \* per session: error raised by the latest attempt
  failures,          \* per session: attempts of this execute that raised
  lastOutcome,       \* per session: how the latest execute call ended
  triggered,         \* trigger firings (diagnostics) since the last close
  closers,           \* sessions whose current execute call closed the breaker
  interfered,        \* closers that saw another session report an outcome
  feed,              \* outcomes fed since the breaker last opened
  iteration,         \* per session: attempts and sleeps of its iteration so far
  metrics,           \* metricsTracker.metrics (utils.js:10), by endpoint name
  vu,                \* per session of the metrics variant: its locals
  executions,        \* makeRequest calls that have returned
  lastRequest,       \* what the latest makeRequest call returned
  candidates,        \* the list handed to a selector
  draw,              \* the value of Math.random() it uses, in RandomSteps-ths
  selected,          \* what the selector returned
  config,            \* what the configuration holds, as setup reads it
  run,               \* how far the run has got: setup, verification, load
  target,            \* __ENV.ENDPOINT, the single target endpoint if any
  executing,         \* per session: the endpoint its iteration executes
  samples,           \* the response times in the per-endpoint Trend metrics
  report,            \* the report handleSummary made of the k6 metrics
  printed            \* what TestReporter made of the metrics store

metricsVars == << metrics, vu, executions, lastRequest >>

selectorVars == << candidates, draw, selected >>

breakerVars == << circuitBreaker, scenario, requestSequence, sessionErrors,
           sessionSuccesses, now, pc, requestsToMake, i, retryCount,
           attempts, sleeps, lastThrown, failures, lastOutcome, triggered,
           closers, interfered, feed, iteration >>

setupVars == << config, run >>

targetVars == << target, executing >>

reportVars == << samples, report, printed >>

vars == << breakerVars, metricsVars, selectorVars, setupVars, targetVars,
           reportVars >>

NoError == "none"
NoOutcome == [kind |-> "none", value |-> NullResult, error |-> NoError,
              isSuccess |-> FALSE]

RECURSIVE Pow2(_)
Pow2(n) == IF n = 0 THEN 1 ELSE 2 * Pow2(n - 1)

\* errorRate >= threshold, with errorRate = errorCount / total (total > 0)
RateAtLeast(errorCount, total, threshold) ==
  errorCount * threshold.den >= threshold.num * total

\* ---- circuit breaker (test.js:122-152) ----

\* checkCircuitBreaker closing an open breaker whatever the time
checkCircuitBreaker_IgnoresCooldown(cb, t) ==
  IF cb.isOpen
    THEN [cb |-> [cb EXCEPT !.isOpen = FALSE, !.errorCount = 0,
                            !.successCount = 0],
          open |-> FALSE]
    ELSE [cb |-> cb, open |-> FALSE]

\* checkCircuitBreaker resetting errorCount only
checkCircuitBreaker_KeepsSuccessCount(cb, t) ==
  IF cb.isOpen
    THEN IF t - cb.lastTriggeredAt >= cb.resetAfter
           THEN [cb |-> [cb EXCEPT !.isOpen = FALSE, !.errorCount = 0],
                 open |-> FALSE]
           ELSE [cb |-> cb, open |-> TRUE]
    ELSE [cb |-> cb, open |-> FALSE]

\* checkCircuitBreaker resetting successCount only
checkCircuitBreaker_KeepsErrorCount(cb, t) ==
  IF cb.isOpen
    THEN IF t - cb.lastTriggeredAt >= cb.resetAfter
           THEN [cb |-> [cb EXCEPT !.isOpen = FALSE, !.successCount = 0],
                 open |-> FALSE]
           ELSE [cb |-> cb, open |-> TRUE]
    ELSE [cb |-> cb, open |-> FALSE]

\* checkCircuitBreaker with the operands of the subtraction swapped
checkCircuitBreaker_SwappedOperands(cb, t) ==
  IF cb.isOpen
    THEN IF cb.lastTriggeredAt - t >= cb.resetAfter
           THEN [cb |-> [cb EXCEPT !.isOpen = FALSE, !.errorCount = 0,
                                   !.successCount = 0],
                 open |-> FALSE]
           ELSE [cb |-> cb, open |-> TRUE]
    ELSE [cb |-> cb, open |-> FALSE]

\* returns the breaker after the check and whether the caller must skip
checkCircuitBreaker(cb, t) ==
  IF cb.isOpen
    THEN IF t - cb.lastTriggeredAt >= cb.resetAfter
           THEN [cb |-> [cb EXCEPT !.isOpen = FALSE, !.errorCount = 0,
                                   !.successCount = 0],
                 open |-> FALSE]
           ELSE [cb |-> cb, open |-> TRUE]
    ELSE [cb |-> cb, open |-> FALSE]

\* the counting half of updateCircuitBreaker
CountOutcome(cb, isSuccess) ==
  IF isSuccess THEN [cb EXCEPT !.successCount = @ + 1]
               ELSE [cb EXCEPT !.errorCount = @ + 1]

\* the condition of test.js:147 on the counts after the increment
TriggerCondition(cb) ==
  LET total == cb.errorCount + cb.successCount
  IN  RateAtLeast(cb.errorCount, total, cb.threshold)
      /\ total >= cb.minSampleSize

\* updateCircuitBreaker without the minSampleSize test
updateCircuitBreaker_IgnoresSampleSize(cb, isSuccess, t) ==
  LET counted == CountOutcome(cb, isSuccess)
  IN  IF RateAtLeast(counted.errorCount,
                     counted.errorCount + counted.successCount, cb.threshold)
        THEN [counted EXCEPT !.isOpen = TRUE, !.lastTriggeredAt = t]
        ELSE counted

\* updateCircuitBreaker opening only above the threshold, not at it
updateCircuitBreaker_StrictRate(cb, isSuccess, t) ==
  LET counted == CountOutcome(cb, isSuccess)
      total == counted.errorCount + counted.successCount
  IN  IF /\ counted.errorCount * cb.threshold.den > cb.threshold.num * total
         /\ total >= cb.minSampleSize
        THEN [counted EXCEPT !.isOpen = TRUE, !.lastTriggeredAt = t]
        ELSE counted

updateCircuitBreaker(cb, isSuccess, t) ==
  LET counted == CountOutcome(cb, isSuccess)
  IN  IF TriggerCondition(counted)
        THEN [counted EXCEPT !.isOpen = TRUE, !.lastTriggeredAt = t]
        ELSE counted

\* ---- retry executor (test.js:155-167) ----

\* retrying while retryCount <= maxRetries
ShouldRetry_Inclusive(count, maxRetries) == count <= maxRetries

\* the catch block retries while retryCount < maxRetries
ShouldRetry(count, maxRetries) == count < maxRetries

\* a backoff growing linearly
BackoffDelay_Linear(backoffMs, count) == backoffMs * (count + 1)

\* delay before the retry that follows the failure of attempt `count`
BackoffDelay(backoffMs, count) == backoffMs * Pow2(count)

\* the error the catch block rethrows when retries are exhausted
Rethrown(error) == error

\* ---- execute (test.js:197-265) ----

\* the guard of test.js:233: the result is not null and carries a response
HasResponse(value) == value # NullResult

\* validateResponse and parseJsonResponse (test.js:237-249) record their
\* checks and return; they do not raise on an unexpected status
ValidationRaises(value) == FALSE

\* a catch clause that lets connection resets through
executeCatches_OnlyTimeouts(error) == error = "ETIMEDOUT"

\* the catch clause of execute (test.js:257) has no filter: whatever was raised
\* inside the try, by executeWithRetry or later, is caught there
executeCatches(error) == TRUE

\* ---- metrics variant of the runner (test.js:477-623, utils.js) ----

\* the endpoint definitions handed to the run (endpoints.js); the metrics
\* variant selects among all of them.  The last one asks for a method that
\* makeRequest does not support.
Endpoints ==
  << [name |-> "List Users", method |-> "GET", weight |-> 2,
      expectedStatus |-> 200],
     [name |-> "Create User", method |-> "POST", weight |-> 1,
      expectedStatus |-> 201],
     [name |-> "Patch User", method |-> "PATCH", weight |-> 1,
      expectedStatus |-> 200] >>

EndpointNames == { Endpoints[e].name : e \in DOMAIN Endpoints }

\* the user profiles (config.js:126-149), with small request ranges
Profiles ==
  << [name |-> "Normal User", weight |-> 7,
      requestsPerSession |-> [min |-> 1, max |-> 3]],
     [name |-> "Power User", weight |-> 2,
      requestsPerSession |-> [min |-> 2, max |-> 2]],
     [name |-> "Heavy User", weight |-> 1,
      requestsPerSession |-> [min |-> 2, max |-> 3]] >>

\* Math.random() returns k / RandomSteps for some k in 0 .. RandomSteps - 1
RandomSteps == 20
Draws == 0 .. (RandomSteps - 1)

\* response statuses (0: no response, the request timed out) and durations
ResponseStatuses == {0, 200, 301, 500}
Durations == {50, 100, 200}

\* makeRequest calls allowed in one run of the model
MaxExecutions == 3

\* minDuration of an endpoint nothing was recorded for yet (utils.js:24)
Infinity == 1000000

\* the entry recordRequest creates for a name it has not seen (utils.js:17-27)
NewMetric ==
  [totalRequests |-> 0, successCount |-> 0, errorCount |-> 0,
   timeoutCount |-> 0, statusCodes |-> [c \in ResponseStatuses |-> 0],
   totalDuration |-> 0, minDuration |-> Infinity, maxDuration |-> 0,
   errors |-> << >>]

NoEndpoint == 0
NoProfile == 0

IdleVu == [pc |-> "idle", userProfile |-> NoProfile, requestsPerSession |-> 0,
           i |-> 0, endpoint |-> NoEndpoint, calls |-> 0, thinks |-> 0,
           finished |-> FALSE]

NoRequest == [raised |-> FALSE, isSuccess |-> FALSE, recorded |-> FALSE]

\* the metrics variant before its first iteration (test.js:514)
MetricsIdle ==
  /\ metrics = [name \in {} |-> NewMetric]
  /\ vu = [s \in Sessions |-> IdleVu]
  /\ executions = 0
  /\ lastRequest = NoRequest

\* no selector call under way
SelectorIdle ==
  /\ candidates = << >>
  /\ draw = 0
  /\ selected = [by |-> "none", item |-> 0, raised |-> FALSE]

\* ---- configuration, setup and reporting: the values they start from ----

\* a configuration setup accepts.  Each field says what setup finds when it
\* reads the configuration: whether api.baseUrl is set, what the endpoint set
\* holds ("empty", "inactive": no weight above 0, "active"), whether the
\* scenario is known, auth.enabled and auth.type, whether the credential of
\* that type is set, whether every threshold has rules, and the three
\* switches of the pre-run verification.
ValidConfig ==
  [baseUrl |-> TRUE, endpoints |-> "active", scenario |-> TRUE,
   authEnabled |-> TRUE, authType |-> "bearer", credential |-> TRUE,
   thresholds |-> TRUE, verification |-> TRUE, authenticator |-> TRUE,
   healthCheck |-> TRUE]

\* a run that has not begun: which variant of test.js runs, where setup is,
\* the results of the two verifications, and the requests issued so far
IdleRun ==
  [variant |-> "breaker", phase |-> "init", cause |-> "none",
   authAsked |-> FALSE, authStatus |-> 0, authResult |-> "none",
   healthAsked |-> FALSE, healthStatus |-> 0, healthResult |-> "none",
   warned |-> FALSE, verificationRequests |-> 0, loadRequests |-> 0]

SetupIdle ==
  /\ config = ValidConfig
  /\ run = IdleRun

NoTarget == "none"

\* no iteration has chosen an endpoint yet
NotExecuting == [name |-> NoTarget, mode |-> "none"]

TargetIdle ==
  /\ target = NoTarget
  /\ executing = [s \in Sessions |-> NotExecuting]

\* no response time recorded, no report made
NoReport == [made |-> FALSE]

ReportIdle ==
  /\ samples = [name \in {} |-> 0]
  /\ report = NoReport
  /\ printed = NoReport

\* an iteration of the default function that has made no attempt and has not
\* slept yet
NoIteration == [attempts |-> 0, backoffs |-> 0, thinks |-> 0]

\* the state after module initialisation (test.js:44-57), for the given
\* configurations of the breaker and of the retry policy
InitWith(breakers, retries) ==
  /\ circuitBreaker \in breakers
  /\ scenario \in retries
  /\ requestSequence = 0
  /\ sessionErrors = 0
  /\ sessionSuccesses = 0
  /\ now = 0
  /\ pc = [s \in Sessions |-> "idle"]
  /\ requestsToMake = [s \in Sessions |-> 0]
  /\ i = [s \in Sessions |-> 0]
  /\ retryCount = [s \in Sessions |-> 0]
  /\ attempts = [s \in Sessions |-> 0]
  /\ sleeps = [s \in Sessions |-> << >>]
  /\ lastThrown = [s \in Sessions |-> NoError]
  /\ failures = [s \in Sessions |-> 0]
  /\ lastOutcome = [s \in Sessions |-> NoOutcome]
  /\ triggered = 0
  /\ closers = {}
  /\ interfered = {}
  /\ feed = "never opened"
  /\ iteration = [s \in Sessions |-> NoIteration]

Breakers ==
  { [isOpen |-> FALSE, errorCount |-> 0, successCount |-> 0,
     threshold |-> th, minSampleSize |-> m, resetAfter |-> r,
     lastTriggeredAt |-> 0] :
    th \in Thresholds, m \in MinSampleSizes, r \in ResetAfterValues }

Init ==
  /\ InitWith(Breakers,
              { [maxRetries |-> mr, backoffMs |-> b] :
                mr \in MaxRetriesValues, b \in BackoffValues })
  /\ MetricsIdle
  /\ SelectorIdle
  /\ SetupIdle
  /\ TargetIdle
  /\ ReportIdle

InitAlone ==
  /\ InitWith(Breakers,
              { [maxRetries |-> mr, backoffMs |-> b] :
                mr \in 0..MaxRetriesAlone, b \in BackoffValuesAlone })
  /\ MetricsIdle
  /\ SelectorIdle
  /\ SetupIdle
  /\ TargetIdle
  /\ ReportIdle

\* Date.now() advances
Tick ==
  /\ UNCHANGED << metricsVars, selectorVars, setupVars, targetVars,
                  reportVars >>
  /\ now < MaxTime
  /\ now' = now + 1
  /\ UNCHANGED << circuitBreaker, scenario, requestSequence, sessionErrors,
                  sessionSuccesses, pc, requestsToMake, i, retryCount,
                  attempts, sleeps, lastThrown, failures, lastOutcome,
                  triggered, closers, interfered, feed, iteration >>

\* the loop sleeping after its last request as well
AfterExecute_SleepsAfterLast(s, n, idx) ==
  IF idx < n
    THEN /\ pc' = [pc EXCEPT ![s] = "think"]
         /\ requestsToMake' = [requestsToMake EXCEPT ![s] = n]
         /\ i' = [i EXCEPT ![s] = idx]
         /\ iteration' = [iteration EXCEPT ![s].thinks = @ + 1]
    ELSE /\ pc' = [pc EXCEPT ![s] = "idle"]
         /\ requestsToMake' = [requestsToMake EXCEPT ![s] = 0]
         /\ i' = [i EXCEPT ![s] = 0]
         /\ iteration' = [iteration EXCEPT ![s] = NoIteration]

\* what the loop of test.js:425-437 does once execute has returned at loop
\* index idx of n: think time unless this was the last request; after the
\* last request the iteration is over
AfterExecute(s, n, idx) ==
  IF idx < n - 1
    THEN /\ pc' = [pc EXCEPT ![s] = "think"]
         /\ requestsToMake' = [requestsToMake EXCEPT ![s] = n]
         /\ i' = [i EXCEPT ![s] = idx]
         /\ iteration' = [iteration EXCEPT ![s].thinks = @ + 1]
    ELSE /\ pc' = [pc EXCEPT ![s] = "idle"]
         /\ requestsToMake' = [requestsToMake EXCEPT ![s] = 0]
         /\ i' = [i EXCEPT ![s] = 0]
         /\ iteration' = [iteration EXCEPT ![s] = NoIteration]

\* execute, called at loop index idx of n, up to its first blocking call: the
\* breaker check, then either the skip (and what the loop does next) or the
\* first attempt of executeWithRetry being sent
execute(s, n, idx) ==
  /\ UNCHANGED << metricsVars, selectorVars, setupVars, reportVars >>
  /\ LET chk == checkCircuitBreaker(circuitBreaker, now)
     IN  IF chk.open
           THEN /\ circuitBreaker' = chk.cb
                /\ lastOutcome' = [lastOutcome EXCEPT ![s] =
                     [NoOutcome EXCEPT !.kind = "skipped"]]
                /\ attempts' = [attempts EXCEPT ![s] = 0]
                /\ closers' = closers \ {s}
                /\ AfterExecute(s, n, idx)
                /\ UNCHANGED << requestSequence, triggered >>
           ELSE /\ requestSequence < MaxRequests
                /\ circuitBreaker' = chk.cb
                /\ requestSequence' = requestSequence + 1
                /\ lastOutcome' = [lastOutcome EXCEPT ![s] = NoOutcome]
                /\ attempts' = [attempts EXCEPT ![s] = 1]
                /\ triggered' = IF circuitBreaker.isOpen THEN 0 ELSE triggered
                /\ closers' = IF circuitBreaker.isOpen THEN closers \cup {s}
                                                       ELSE closers \ {s}
                /\ pc' = [pc EXCEPT ![s] = "inflight"]
                /\ requestsToMake' = [requestsToMake EXCEPT ![s] = n]
                /\ i' = [i EXCEPT ![s] = idx]
                /\ iteration' = [iteration EXCEPT ![s].attempts = @ + 1]
  /\ retryCount' = [retryCount EXCEPT ![s] = 0]
  /\ sleeps' = [sleeps EXCEPT ![s] = << >>]
  /\ lastThrown' = [lastThrown EXCEPT ![s] = NoError]
  /\ failures' = [failures EXCEPT ![s] = 0]
  /\ interfered' = interfered \ {s}
  /\ UNCHANGED << scenario, sessionErrors, sessionSuccesses, now, feed >>

\* default function, regular mode (test.js:405-431): a new iteration starts,
\* fixes requestsToMake and makes its first execute call
StartIteration(s) ==
  /\ UNCHANGED targetVars
  /\ pc[s] = "idle"
  /\ \E n \in RequestCounts : execute(s, n, 0)

\* the think-time sleep ends (test.js:435): next loop index, next execute call
ThinkDone(s) ==
  /\ UNCHANGED targetVars
  /\ pc[s] = "think"
  /\ execute(s, requestsToMake[s], i[s] + 1)

\* the end of execute (test.js:233-264) once executeWithRetry has returned
\* `value` or raised `error` (kind says which)
Complete(s, kind, value, error) ==
  LET validated == kind = "returned" /\ HasResponse(value)
      caught == kind = "threw" \/ (validated /\ ValidationRaises(value))
      isSuccess == validated /\ ~caught
      updated == updateCircuitBreaker(circuitBreaker, isSuccess, now)
  IN  /\ sessionSuccesses' = IF isSuccess THEN sessionSuccesses + 1
                                          ELSE sessionSuccesses
      /\ sessionErrors' = IF caught THEN sessionErrors + 1
                                    ELSE sessionErrors
      /\ circuitBreaker' = updated
      /\ interfered' =
           interfered \cup { o \in closers \ {s} : pc[o] \in {"inflight", "backoff"} }
      /\ feed' = IF ~circuitBreaker.isOpen /\ updated.isOpen THEN "only successes"
                 ELSE IF feed = "never opened" \/ isSuccess THEN feed
                 ELSE "some failure"
      /\ triggered' = IF TriggerCondition(CountOutcome(circuitBreaker, isSuccess))
                        THEN triggered + 1 ELSE triggered
      /\ lastOutcome' = [lastOutcome EXCEPT ![s] =
           [kind |-> kind, value |-> value, error |-> error,
            isSuccess |-> isSuccess]]
      /\ AfterExecute(s, requestsToMake[s], i[s])

\* an error leaves execute: the default function ends there and the runtime
\* starts the session's next iteration; nothing is reported to the breaker
Escapes(s, error) ==
  /\ lastOutcome' = [lastOutcome EXCEPT ![s] =
       [kind |-> "raised", value |-> NullResult, error |-> error,
        isSuccess |-> FALSE]]
  /\ pc' = [pc EXCEPT ![s] = "idle"]
  /\ requestsToMake' = [requestsToMake EXCEPT ![s] = 0]
  /\ i' = [i EXCEPT ![s] = 0]
  /\ iteration' = [iteration EXCEPT ![s] = NoIteration]
  /\ UNCHANGED << circuitBreaker, sessionErrors, sessionSuccesses, triggered,
                  interfered, feed >>

\* an attempt that returned an error status being retried like a raised error
AttemptReturns_RetriesHttpErrors(s) ==
  /\ UNCHANGED << metricsVars, selectorVars, setupVars, targetVars,
                  reportVars >>
  /\ pc[s] = "inflight"
  /\ \E value \in ResultValues :
       IF value # NullResult /\ value >= 400
            /\ ShouldRetry(retryCount[s], scenario.maxRetries)
         THEN /\ sleeps' = [sleeps EXCEPT ![s] =
                   Append(@, BackoffDelay(scenario.backoffMs, retryCount[s]))]
              /\ pc' = [pc EXCEPT ![s] = "backoff"]
              /\ iteration' = [iteration EXCEPT ![s].backoffs = @ + 1]
              /\ UNCHANGED << circuitBreaker, sessionErrors, sessionSuccesses,
                              requestsToMake, i, lastOutcome, triggered,
                              interfered, feed >>
         ELSE /\ Complete(s, "returned", value, NoError)
              /\ UNCHANGED sleeps
  /\ UNCHANGED << scenario, requestSequence, now, retryCount, attempts,
                  lastThrown, failures, closers >>

\* the attempt in flight returns a result: executeWithRetry returns it
AttemptReturns(s) ==
  /\ UNCHANGED << metricsVars, selectorVars, setupVars, targetVars,
                  reportVars >>
  /\ pc[s] = "inflight"
  /\ \E value \in ResultValues :
       Complete(s, "returned", value, NoError)
  /\ UNCHANGED << scenario, requestSequence, now, retryCount, attempts,
                  sleeps, lastThrown, failures, closers >>

\* the attempt in flight raises: the catch block of executeWithRetry either
\* sleeps before a retry or rethrows into the catch block of execute
AttemptThrows(s) ==
  /\ UNCHANGED << metricsVars, selectorVars, setupVars, targetVars,
                  reportVars >>
  /\ pc[s] = "inflight"
  /\ \E error \in ErrorValues :
       /\ lastThrown' = [lastThrown EXCEPT ![s] = error]
       /\ failures' = [failures EXCEPT ![s] = failures[s] + 1]
       /\ IF ShouldRetry(retryCount[s], scenario.maxRetries)
            THEN LET backoffMs == BackoffDelay(scenario.backoffMs, retryCount[s])
                 IN  /\ sleeps' = [sleeps EXCEPT ![s] = Append(@, backoffMs)]
                     /\ pc' = [pc EXCEPT ![s] = "backoff"]
                     /\ iteration' = [iteration EXCEPT ![s].backoffs = @ + 1]
                     /\ UNCHANGED << circuitBreaker, sessionErrors,
                                     sessionSuccesses, requestsToMake, i,
                                     lastOutcome, triggered, interfered,
                                     feed >>
            ELSE /\ IF executeCatches(Rethrown(error))
                      THEN Complete(s, "threw", NullResult, Rethrown(error))
                      ELSE Escapes(s, Rethrown(error))
                 /\ UNCHANGED sleeps
  /\ UNCHANGED << scenario, requestSequence, now, retryCount, attempts,
                  closers >>

\* the caller moving on when the backoff sleep ends, the call left unfinished
Retry_AbandonsCall(s) ==
  /\ UNCHANGED << metricsVars, selectorVars, setupVars, targetVars,
                  reportVars >>
  /\ pc[s] = "backoff"
  /\ AfterExecute(s, requestsToMake[s], i[s])
  /\ UNCHANGED << circuitBreaker, scenario, requestSequence, sessionErrors,
                  sessionSuccesses, now, retryCount, attempts, sleeps,
                  lastThrown, failures, lastOutcome, triggered, closers,
                  interfered, feed >>

\* the backoff sleep ends: executeWithRetry recurses with retryCount + 1 and
\* the next attempt is sent
Retry(s) ==
  /\ UNCHANGED << metricsVars, selectorVars, setupVars, targetVars,
                  reportVars >>
  /\ pc[s] = "backoff"
  /\ retryCount' = [retryCount EXCEPT ![s] = retryCount[s] + 1]
  /\ attempts' = [attempts EXCEPT ![s] = attempts[s] + 1]
  /\ iteration' = [iteration EXCEPT ![s].attempts = @ + 1]
  /\ lastThrown' = [lastThrown EXCEPT ![s] = NoError]
  /\ pc' = [pc EXCEPT ![s] = "inflight"]
  /\ UNCHANGED << circuitBreaker, scenario, requestSequence, sessionErrors,
                  sessionSuccesses, now, requestsToMake, i, sleeps,
                  failures, lastOutcome, triggered, closers, interfered,
                  feed >>

SessionStep(s) ==
  \/ StartIteration(s)
  \/ AttemptReturns(s)
  \/ AttemptThrows(s)
  \/ Retry(s)
  \/ ThinkDone(s)

Next ==
  \/ Tick
  \/ \E s \in Sessions : SessionStep(s)

\* the sessions running concurrently
Spec == Init /\ [][Next]_vars

\* one session running alone
NextAlone ==
  \/ Tick
  \/ SessionStep(1)

SpecAlone == InitAlone /\ [][NextAlone]_vars

\* the configuration tried with time running on: a breaker that opens on the
\* first error, under a retry policy with one retry
InitForever ==
  /\ InitWith({ b \in Breakers :
                  b.minSampleSize = 1 /\ b.threshold = [num |-> 1, den |-> 2] },
              { [maxRetries |-> 1, backoffMs |-> b] : b \in BackoffValues })
  /\ MetricsIdle
  /\ SelectorIdle
  /\ SetupIdle
  /\ TargetIdle
  /\ ReportIdle

\* Date.now() advancing without end.  The clock is read only in the
\* difference now - lastTriggeredAt, so once now has reached MaxTime the
\* epoch is moved instead: lastTriggeredAt goes back by one, down to 0, where
\* the difference is MaxTime and no resetAfter tried is larger.
TickForever ==
  /\ UNCHANGED << metricsVars, selectorVars, setupVars, targetVars,
                  reportVars >>
  /\ IF now < MaxTime
       THEN /\ now' = now + 1
            /\ UNCHANGED circuitBreaker
       ELSE /\ circuitBreaker.lastTriggeredAt > 0
            /\ circuitBreaker' =
                 [circuitBreaker EXCEPT !.lastTriggeredAt = @ - 1]
            /\ UNCHANGED now
  /\ UNCHANGED << scenario, requestSequence, sessionErrors,
                  sessionSuccesses, pc, requestsToMake, i, retryCount,
                  attempts, sleeps, lastThrown, failures, lastOutcome,
                  triggered, closers, interfered, feed, iteration >>

NextForever ==
  \/ TickForever
  \/ \E s \in Sessions : SessionStep(s)

\* the sessions running concurrently while time keeps advancing and every
\* session keeps being scheduled
SpecForever ==
  /\ InitForever
  /\ [][NextForever]_vars
  /\ WF_vars(TickForever)
  /\ \A s \in Sessions : WF_vars(SessionStep(s))

\* ---- weighted selection (utils.js:196-224) ----

RECURSIVE SumWeights(_)
SumWeights(items) ==
  IF items = << >> THEN 0 ELSE Head(items).weight + SumWeights(Tail(items))

\* the for loop of a selector from position idx on, with `random` the
\* remainder in scale-ths: the item at which it becomes <= 0 is returned, and
\* the first item when the loop ends without one
RECURSIVE WalkScaled(_, _, _, _)
WalkScaled(items, idx, random, scale) ==
  IF idx > Len(items)
    THEN 1
    ELSE LET remainder == random - scale * items[idx].weight
         IN  IF remainder <= 0 THEN idx
                               ELSE WalkScaled(items, idx + 1, remainder, scale)

\* the same loop with the remainder in RandomSteps-ths
WalkWeights(items, idx, random) == WalkScaled(items, idx, random, RandomSteps)

\* a selector that ignores the weights: every item gets an equal share
selectAt_Unweighted(items, k, scale) == ((k * Len(items)) \div scale) + 1

\* a selector with Math.random() = k / scale; the index of the item returned
selectAt(items, k, scale) ==
  WalkScaled(items, 1, k * SumWeights(items), scale)

\* whether a selector throws for the list it is given: neither selector has
\* a throw statement nor a check of the list (utils.js:196-224)
selectorThrows(items) == FALSE

\* selectEndpoint going on to the next endpoint when the remainder is 0
selectEndpoint_NextOnTie(endpoints, k) ==
  WalkWeights(endpoints, 1, k * SumWeights(endpoints) + 1)

\* selectEndpoint with Math.random() = k / RandomSteps; the index of the
\* endpoint returned
selectEndpoint(endpoints, k) ==
  WalkWeights(endpoints, 1, k * SumWeights(endpoints))

\* selectUserProfile returning the last profile when all weights are 0
selectUserProfile_LastWhenDegenerate(profiles, k) ==
  IF SumWeights(profiles) = 0
    THEN Len(profiles)
    ELSE WalkWeights(profiles, 1, k * SumWeights(profiles))

\* selectUserProfile over Object.values(profiles), in the same way
selectUserProfile(profiles, k) ==
  WalkWeights(profiles, 1, k * SumWeights(profiles))

\* test.js:553-555: min + Math.floor(Math.random() * (max - min))
DrawRequestsPerSession(profile, k) ==
  profile.requestsPerSession.min
    + ((k * (profile.requestsPerSession.max - profile.requestsPerSession.min))
         \div RandomSteps)

\* ---- makeRequest and the metrics store (utils.js:13-193) ----

\* the methods the switch of makeRequest knows (utils.js:142-169)
SupportedMethods == {"GET", "POST", "PUT", "DELETE"}

\* the isSuccess flag makeRequest returns (utils.js:178-180)
ResponseIsSuccess(status, expectedStatus) ==
  \/ status = expectedStatus
  \/ /\ expectedStatus >= 200 /\ expectedStatus < 300
     /\ status >= 200 /\ status < 300

MinOf(a, b) == IF a <= b THEN a ELSE b
MaxOf(a, b) == IF a >= b THEN a ELSE b

\* recordRequest counting a timeout as a timeout only, not as an error
recordRequest_TimeoutNotError(m, name, status, duration) ==
  LET metric == IF name \in DOMAIN m THEN m[name] ELSE NewMetric
      timed == [metric EXCEPT !.totalRequests = @ + 1,
                              !.totalDuration = @ + duration,
                              !.minDuration = MinOf(@, duration),
                              !.maxDuration = MaxOf(@, duration)]
      counted ==
        IF status = 0
          THEN [timed EXCEPT !.timeoutCount = @ + 1,
                             !.errors = Append(@, "TIMEOUT")]
        ELSE IF status >= 400
          THEN [timed EXCEPT !.errorCount = @ + 1,
                             !.errors = Append(@, "HTTP_" \o ToString(status))]
        ELSE [timed EXCEPT !.successCount = @ + 1]
      recorded == [counted EXCEPT !.statusCodes[status] = @ + 1]
  IN  [n \in (DOMAIN m) \cup {name} |-> IF n = name THEN recorded ELSE m[n]]

\* MetricsTracker.recordRequest: the store after recording a response with
\* this status and duration for the endpoint of this name.  An error record
\* is kept as its type (its message repeats the type, its timestamp is the
\* wall clock).
\* recordRequest keeping only the endpoint it is called for
recordRequest_ForgetsOthers(m, name, status, duration) ==
  LET metric == IF name \in DOMAIN m THEN m[name] ELSE NewMetric
  IN  [n \in {name} |->
         [metric EXCEPT !.totalRequests = @ + 1,
                        !.totalDuration = @ + duration,
                        !.successCount = @ + 1,
                        !.statusCodes[status] = @ + 1]]

\* recordRequest leaving the status histogram alone
recordRequest_SkipsHistogram(m, name, status, duration) ==
  LET metric == IF name \in DOMAIN m THEN m[name] ELSE NewMetric
      timed == [metric EXCEPT !.totalRequests = @ + 1,
                              !.totalDuration = @ + duration,
                              !.minDuration = MinOf(@, duration),
                              !.maxDuration = MaxOf(@, duration)]
      counted ==
        IF status = 0
          THEN [timed EXCEPT !.timeoutCount = @ + 1, !.errorCount = @ + 1,
                             !.errors = Append(@, "TIMEOUT")]
        ELSE IF status >= 400
          THEN [timed EXCEPT !.errorCount = @ + 1,
                             !.errors = Append(@, "HTTP_" \o ToString(status))]
        ELSE [timed EXCEPT !.successCount = @ + 1]
  IN  [n \in (DOMAIN m) \cup {name} |-> IF n = name THEN counted ELSE m[n]]

recordRequest(m, name, status, duration) ==
  LET metric == IF name \in DOMAIN m THEN m[name] ELSE NewMetric
      timed == [metric EXCEPT !.totalRequests = @ + 1,
                              !.totalDuration = @ + duration,
                              !.minDuration = MinOf(@, duration),
                              !.maxDuration = MaxOf(@, duration)]
      counted ==
        IF status = 0
          THEN [timed EXCEPT !.timeoutCount = @ + 1, !.errorCount = @ + 1,
                             !.errors = Append(@, "TIMEOUT")]
        ELSE IF status >= 400
          THEN [timed EXCEPT !.errorCount = @ + 1,
                             !.errors = Append(@, "HTTP_" \o ToString(status))]
        ELSE [timed EXCEPT !.successCount = @ + 1]
      recorded == [counted EXCEPT !.statusCodes[status] = @ + 1]
  IN  [n \in (DOMAIN m) \cup {name} |-> IF n = name THEN recorded ELSE m[n]]

\* Math.round of a / b for a >= 0, b > 0
RoundDiv(a, b) == (2 * a + b) \div (2 * b)

\* avgDuration of MetricsTracker.getSummary (utils.js:75)
avgDuration(data) ==
  IF data.totalRequests > 0
    THEN RoundDiv(data.totalDuration, data.totalRequests)
    ELSE 0

\* makeRequest calls that have begun
Started ==
  executions + Cardinality({ s \in Sessions : vu[s].pc = "request" })

\* one pass of the loop body of test.js:558-573 at index idx of n, up to its
\* first blocking call: an endpoint is selected and makeRequest builds the
\* request; a supported method is sent, an unsupported one raises inside the
\* try of makeRequest, which logs and returns null; the caller records
\* nothing for a null result and goes to its think-time sleep
RequestStep(s, p, n, idx) ==
  /\ Started < MaxExecutions
  /\ \E e \in { selectEndpoint(Endpoints, k) : k \in Draws } :
       LET called == [vu[s] EXCEPT !.userProfile = p,
                                   !.requestsPerSession = n,
                                   !.i = idx,
                                   !.calls = IF idx = 0 THEN 1 ELSE @ + 1,
                                   !.thinks = IF idx = 0 THEN 0 ELSE @,
                                   !.finished = FALSE]
       IN  IF Endpoints[e].method \in SupportedMethods
             THEN /\ vu' = [vu EXCEPT ![s] =
                       [called EXCEPT !.pc = "request", !.endpoint = e]]
                  /\ UNCHANGED << metrics, executions, lastRequest >>
             ELSE /\ vu' = [vu EXCEPT ![s] =
                       [called EXCEPT !.pc = "sleep", !.thinks = @ + 1]]
                  /\ executions' = executions + 1
                  /\ lastRequest' = [NoRequest EXCEPT !.raised = TRUE]
                  /\ UNCHANGED metrics
  /\ UNCHANGED << breakerVars, selectorVars, setupVars, targetVars,
                  reportVars >>

\* the default function of the metrics variant begins (test.js:551-559): a
\* profile is selected, the number of requests drawn, the first request made
StartSession(s) ==
  /\ vu[s].pc = "idle"
  /\ \E p \in { selectUserProfile(Profiles, k) : k \in Draws } :
       \E n \in { DrawRequestsPerSession(Profiles[p], k) : k \in Draws } :
         RequestStep(s, p, n, 0)

\* the transport call returns a response: makeRequest returns its result,
\* the caller records it (test.js:567-569) and sleeps (test.js:572-573)
Response(s) ==
  /\ vu[s].pc = "request"
  /\ \E status \in ResponseStatuses, duration \in Durations :
       LET e == vu[s].endpoint
       IN  /\ metrics' = recordRequest(metrics, Endpoints[e].name, status,
                                       duration)
           /\ lastRequest' =
                [raised |-> FALSE,
                 isSuccess |->
                   ResponseIsSuccess(status, Endpoints[e].expectedStatus),
                 recorded |-> TRUE]
  /\ executions' = executions + 1
  /\ vu' = [vu EXCEPT ![s].pc = "sleep", ![s].endpoint = NoEndpoint,
                       ![s].thinks = @ + 1]
  /\ UNCHANGED << breakerVars, selectorVars, setupVars, targetVars,
                  reportVars >>

\* the think-time sleep ends: the next pass of the loop, or the end of it
SleepDone(s) ==
  /\ vu[s].pc = "sleep"
  /\ IF vu[s].i + 1 < vu[s].requestsPerSession
       THEN RequestStep(s, vu[s].userProfile, vu[s].requestsPerSession,
                        vu[s].i + 1)
       ELSE /\ vu' = [vu EXCEPT ![s].pc = "idle", ![s].finished = TRUE]
            /\ UNCHANGED << metrics, executions, lastRequest, breakerVars,
                            selectorVars, setupVars, targetVars,
                            reportVars >>

\* the breaker variant idle, in one configuration
BreakerIdle ==
  InitWith({ b \in Breakers :
               b.minSampleSize = 1 /\ b.threshold = [num |-> 1, den |-> 2] },
           { [maxRetries |-> 0, backoffMs |-> b] : b \in BackoffValues })

InitMetrics ==
  /\ BreakerIdle
  /\ MetricsIdle
  /\ SelectorIdle
  /\ SetupIdle
  /\ TargetIdle
  /\ ReportIdle

NextMetrics ==
  \E s \in Sessions :
    \/ StartSession(s)
    \/ Response(s)
    \/ SleepDone(s)

\* the sessions of the metrics variant running concurrently
SpecMetrics == InitMetrics /\ [][NextMetrics]_vars

\* one session of the metrics variant running alone
NextMetricsAlone ==
  \/ StartSession(1)
  \/ Response(1)
  \/ SleepDone(1)

SpecMetricsAlone == InitMetrics /\ [][NextMetricsAlone]_vars

\* ---- the single target mode (test.js:59-60, 388-439) ----

\* config.endpoints as tried here: two endpoints that take part in the
\* weighted selection and one that is switched off by weight 0
TargetEndpoints ==
  << [name |-> "List Users", weight |-> 2],
     [name |-> "Create User", weight |-> 1],
     [name |-> "Delete User", weight |-> 0] >>

\* the values of __ENV.ENDPOINT tried: unset, each configured name, and a
\* name that is not configured
TargetNames ==
  { TargetEndpoints[j].name : j \in DOMAIN TargetEndpoints }
    \cup { NoTarget, "Export Users" }

IsActive(ep) == ep.weight > 0

\* "Filter active endpoints (weight > 0)" (test.js:59)
filterInactiveEndpoints(endpoints) == SelectSeq(endpoints, IsActive)

activeEndpoints == filterInactiveEndpoints(TargetEndpoints)

\* activeEndpoints.find(ep => ep.name === endpointName) finds an endpoint
Found(endpointName) ==
  \E j \in DOMAIN activeEndpoints : activeEndpoints[j].name = endpointName

\* the selector of the regular mode with Math.random() = k / RandomSteps:
\* the walk over the weights, returning the index of the endpoint chosen
selectWeightedEndpoint(endpoints, k) ==
  WalkWeights(endpoints, 1, k * SumWeights(endpoints))

InitTarget ==
  /\ InitWith(Breakers,
              { [maxRetries |-> mr, backoffMs |-> b] :
                mr \in MaxRetriesValues, b \in BackoffValues })
  /\ MetricsIdle
  /\ SelectorIdle
  /\ SetupIdle
  /\ target \in TargetNames
  /\ executing = [s \in Sessions |-> NotExecuting]
  /\ ReportIdle

\* the single target mode executing whatever name it is given
TargetIteration_NoLookup(s) ==
  /\ pc[s] = "idle"
  /\ target # NoTarget
  /\ execute(s, 1, 0)
  /\ executing' = [executing EXCEPT ![s] = [name |-> target, mode |-> "target"]]
  /\ UNCHANGED target

\* default function with __ENV.ENDPOINT set (test.js:390-403): the name is
\* looked up among the active endpoints; not found, the iteration ends with
\* the Error thrown at test.js:396; found, execute is called once
TargetIteration(s) ==
  /\ pc[s] = "idle"
  /\ target # NoTarget
  /\ IF Found(target)
       THEN /\ execute(s, 1, 0)
            /\ executing' =
                 [executing EXCEPT ![s] = [name |-> target, mode |-> "target"]]
       ELSE /\ executing' =
                 [executing EXCEPT ![s] = [name |-> target, mode |-> "Error"]]
            /\ UNCHANGED << breakerVars, metricsVars, selectorVars,
                            setupVars, reportVars >>
  /\ UNCHANGED target

\* the regular mode drawing among all configured endpoints, the inactive
\* ones included, each with the same chance
RegularExecute_Unfiltered(s, n, idx) ==
  /\ target = NoTarget
  /\ \E e \in DOMAIN TargetEndpoints :
       /\ execute(s, n, idx)
       /\ executing' = [executing EXCEPT ![s] =
            [name |-> TargetEndpoints[e].name,
             mode |-> "selectWeightedEndpoint"]]
  /\ UNCHANGED target

\* one round of the loop of the regular mode (test.js:425-431): an endpoint
\* is drawn among the active ones and executed
RegularExecute(s, n, idx) ==
  /\ target = NoTarget
  /\ \E e \in { selectWeightedEndpoint(activeEndpoints, k) : k \in Draws } :
       /\ execute(s, n, idx)
       /\ executing' = [executing EXCEPT ![s] =
            [name |-> activeEndpoints[e].name,
             mode |-> "selectWeightedEndpoint"]]
  /\ UNCHANGED target

\* default function with __ENV.ENDPOINT unset (test.js:405-431)
RegularIteration(s) ==
  /\ pc[s] = "idle"
  /\ \E n \in RequestCounts : RegularExecute(s, n, 0)

\* the think-time sleep of the regular mode ends (test.js:435)
RegularThinkDone(s) ==
  /\ pc[s] = "think"
  /\ RegularExecute(s, requestsToMake[s], i[s] + 1)

\* one session, in whichever mode __ENV.ENDPOINT puts it
NextTarget ==
  \/ Tick
  \/ TargetIteration(1)
  \/ RegularIteration(1)
  \/ RegularThinkDone(1)
  \/ AttemptReturns(1)
  \/ AttemptThrows(1)
  \/ Retry(1)

SpecTarget == InitTarget /\ [][NextTarget]_vars

\* ---- module load, setup and the pre-run verification ----
\* (test.js:35-39, 81-119, 270-383 and test.js:500-548, utils.js:233-258)

\* the configurations tried: every combination of what setup reads
Configs ==
  [baseUrl : BOOLEAN, endpoints : {"empty", "inactive", "active"},
   scenario : BOOLEAN, authEnabled : BOOLEAN,
   authType : {"bearer", "basic", "apikey", "none"}, credential : BOOLEAN,
   thresholds : BOOLEAN, verification : BOOLEAN, authenticator : BOOLEAN,
   healthCheck : BOOLEAN]

\* the status both verifications expect (config.js:40, 49)
ExpectedStatus == 200

\* the verification call raised instead of returning a response
Raised == -1

\* what a verification request can come back with; 0 is a timeout
VerifyStatuses == {0, 200, 401, 500}

MaxLoad == 2

\* the errors validateConfiguration collects (test.js:81-119)
validateConfiguration(cfg) ==
  (IF ~cfg.baseUrl THEN {"config.api.baseUrl is missing"} ELSE {})
    \cup (IF cfg.endpoints = "empty" THEN {"config.endpoints is empty"} ELSE {})
    \cup (IF ~cfg.scenario THEN {"Scenario not found"} ELSE {})
    \cup (IF cfg.endpoints # "active"
            THEN {"No endpoints with weight > 0 found"} ELSE {})
    \cup (IF cfg.authEnabled /\ cfg.authType = "bearer" /\ ~cfg.credential
            THEN {"Auth type is bearer but token is missing"} ELSE {})
    \cup (IF cfg.authEnabled /\ cfg.authType = "basic" /\ ~cfg.credential
            THEN {"Auth type is basic but username or password is missing"}
            ELSE {})
    \cup (IF ~cfg.thresholds THEN {"Threshold has no rules defined"} ELSE {})

\* the two verification helpers of the first setup: success is the expected
\* status
verifyAuthentication(status) == status = ExpectedStatus

verifyServerHealth(status) == status = ExpectedStatus

\* verifyAuth throws for these statuses only (utils.js:239-241)
verifyAuthThrows(status) == status = 401 \/ status = 403

\* verifyHealth throws for every status but 200 (utils.js:252-254)
verifyHealthThrows(status) == status # 200

InitSetup ==
  /\ BreakerIdle
  /\ MetricsIdle
  /\ SelectorIdle
  /\ config \in Configs
  /\ run \in { [IdleRun EXCEPT !.variant = v] : v \in {"breaker", "metrics"} }
  /\ TargetIdle
  /\ ReportIdle

Aborted(r, why) == [r EXCEPT !.phase = "aborted", !.cause = why]

\* the module is loaded: an unknown scenario name throws there
\* (test.js:36-39, 500-505)
LoadModule ==
  /\ run.phase = "init"
  /\ run' = IF ~config.scenario THEN Aborted(run, "scenario")
                                ELSE [run EXCEPT !.phase = "setup"]
  /\ UNCHANGED << config, breakerVars, metricsVars, selectorVars, targetVars,
                  reportVars >>

\* the end of the verification block (test.js:350-369): a failed
\* authentication check throws, a failed health check is a warning
ConcludeVerification(r) ==
  IF r.authResult = "failed"
    THEN Aborted(r, "auth")
    ELSE [r EXCEPT !.phase = "load", !.warned = (r.healthResult = "failed")]

\* the health part of the verification block (test.js:333-348) up to its
\* request
BeginHealthCheck(r) ==
  IF config.healthCheck
    THEN [r EXCEPT !.phase = "health", !.healthAsked = TRUE,
                   !.verificationRequests = @ + 1]
    ELSE ConcludeVerification([r EXCEPT !.healthResult = "skipped"])

\* setup of the first variant up to its first request (test.js:270-329)
Setup ==
  /\ run.phase = "setup"
  /\ run.variant = "breaker"
  /\ run' =
       IF validateConfiguration(config) # {}
         THEN Aborted(run, "validation")
       ELSE IF ~config.verification
         THEN [run EXCEPT !.phase = "load"]
       ELSE IF config.authenticator
         THEN [run EXCEPT !.phase = "auth", !.authAsked = TRUE,
                          !.verificationRequests = @ + 1]
       ELSE BeginHealthCheck([run EXCEPT !.authResult = "skipped"])
  /\ UNCHANGED << config, breakerVars, metricsVars, selectorVars, targetVars,
                  reportVars >>

\* the authentication check of the first variant comes back
\* (test.js:320-329), and setup goes on to the health check
AuthenticationChecked ==
  /\ run.phase = "auth"
  /\ run.variant = "breaker"
  /\ \E status \in VerifyStatuses \cup {Raised} :
       run' = BeginHealthCheck(
         [run EXCEPT !.authStatus = status,
                     !.authResult = IF verifyAuthentication(status)
                                      THEN "success" ELSE "failed"])
  /\ UNCHANGED << config, breakerVars, metricsVars, selectorVars, targetVars,
                  reportVars >>

\* the health check of the first variant comes back (test.js:335-345)
HealthChecked ==
  /\ run.phase = "health"
  /\ run.variant = "breaker"
  /\ \E status \in VerifyStatuses \cup {Raised} :
       run' = ConcludeVerification(
         [run EXCEPT !.healthStatus = status,
                     !.healthResult = IF verifyServerHealth(status)
                                        THEN "success" ELSE "failed"])
  /\ UNCHANGED << config, breakerVars, metricsVars, selectorVars, targetVars,
                  reportVars >>

\* setup of the second variant up to the request of verifyHealth
\* (test.js:517-533, utils.js:248-250)
SetupMetrics ==
  /\ run.phase = "setup"
  /\ run.variant = "metrics"
  /\ run' = [run EXCEPT !.phase = "health", !.healthAsked = TRUE,
                        !.verificationRequests = @ + 1]
  /\ UNCHANGED << config, breakerVars, metricsVars, selectorVars, targetVars,
                  reportVars >>

\* verifyHealth gets its response (utils.js:252-257); what it throws, setup
\* logs and throws again (test.js:537-540); otherwise verifyAuth is called
\* unless the auth type is none (test.js:534-536)
verifyHealth ==
  /\ run.phase = "health"
  /\ run.variant = "metrics"
  /\ \E status \in VerifyStatuses :
       run' =
         IF verifyHealthThrows(status)
           THEN Aborted([run EXCEPT !.healthStatus = status,
                                    !.healthResult = "failed"], "health")
         ELSE IF config.authType # "none"
           THEN [run EXCEPT !.healthStatus = status,
                            !.healthResult = "success",
                            !.phase = "auth", !.authAsked = TRUE,
                            !.verificationRequests = @ + 1]
         ELSE [run EXCEPT !.healthStatus = status,
                          !.healthResult = "success",
                          !.authResult = "skipped", !.phase = "load"]
  /\ UNCHANGED << config, breakerVars, metricsVars, selectorVars, targetVars,
                  reportVars >>

\* verifyAuth gets its response (utils.js:237-244)
verifyAuth ==
  /\ run.phase = "auth"
  /\ run.variant = "metrics"
  /\ \E status \in VerifyStatuses :
       run' =
         IF verifyAuthThrows(status)
           THEN Aborted([run EXCEPT !.authStatus = status,
                                    !.authResult = "failed"], "auth")
           ELSE [run EXCEPT !.authStatus = status,
                            !.authResult = "success", !.phase = "load"]
  /\ UNCHANGED << config, breakerVars, metricsVars, selectorVars, targetVars,
                  reportVars >>

\* setup has returned: the sessions send a request of the load
LoadRequest ==
  /\ run.phase = "load"
  /\ run.loadRequests < MaxLoad
  /\ run' = [run EXCEPT !.loadRequests = @ + 1]
  /\ UNCHANGED << config, breakerVars, metricsVars, selectorVars, targetVars,
                  reportVars >>

NextSetup ==
  \/ LoadModule
  \/ Setup
  \/ AuthenticationChecked
  \/ HealthChecked
  \/ SetupMetrics
  \/ verifyHealth
  \/ verifyAuth
  \/ LoadRequest

SpecSetup == InitSetup /\ [][NextSetup]_vars

\* ---- the reports (reporter.js, utils.js:67-84, test.js:62-78, 578-596) ----

RECURSIVE SumOver(_, _)
SumOver(f, S) ==
  IF S = {} THEN 0
  ELSE LET x == CHOOSE y \in S : TRUE
       IN  f[x] + SumOver(f, S \ {x})

\* a response time beyond the limit of the degradation analysis
SlowDuration == 20000

\* a Trend metric with no value added; the values are kept by how often each
\* occurred
EmptyTrend == [d \in Durations \cup {SlowDuration} |-> 0]

\* Trend.add(duration) for the endpoint of that name
AddSample(trends, name, duration) ==
  [n \in (DOMAIN trends) \cup {name} |->
     LET trend == IF n \in DOMAIN trends THEN trends[n] ELSE EmptyTrend
     IN  IF n = name THEN [trend EXCEPT ![duration] = @ + 1] ELSE trend]

\* values.length
Length(values) == SumOver(values, DOMAIN values)

\* values.reduce((a, b) => a + b, 0)
SumValues(values) == SumOver([d \in DOMAIN values |-> d * values[d]], DOMAIN values)

\* values.sort((a, b) => a - b), as a sequence
RECURSIVE SortFrom(_, _)
SortFrom(values, S) ==
  IF S = {} THEN << >>
  ELSE LET least == CHOOSE y \in S : \A z \in S : y <= z
       IN  [j \in 1..values[least] |-> least] \o SortFrom(values, S \ {least})

sortAscending(values) == SortFrom(values, DOMAIN values)

\* Math.floor(sorted.length * 0.95) and Math.floor(sorted.length * 0.99),
\* with the percentage given in hundredths
PercentileIndex(length, percent) == (length * percent) \div 100

\* sorted[index] || 0, the index counted from 0
ElementOrZero(sorted, index) ==
  IF index + 1 \in DOMAIN sorted THEN sorted[index + 1] ELSE 0

\* the names of the status counters of an endpoint (test.js:73-76), without
\* the ep_<endpoint>_ prefix
StatusCounterNames == {"status_2xx", "status_3xx", "status_4xx", "status_5xx"}

\* the suffixes the patterns status_\d{3} of extractEndpointMetrics accept
\* (reporter.js:510, 563), for the codes from 100 on
StatusCodePattern == { "status_" \o ToString(code) : code \in 100..599 }

\* the status code a matching counter name carries (statusMatch[2])
StatusCodeOf(counterName) ==
  CHOOSE code \in 100..599 : counterName = "status_" \o ToString(code)

\* the counter a response status is counted under
StatusCounterOf(status) ==
  IF status >= 500 THEN "status_5xx"
  ELSE IF status >= 400 THEN "status_4xx"
  ELSE IF status >= 300 THEN "status_3xx"
  ELSE IF status >= 200 THEN "status_2xx"
  ELSE "none"

\* the k6 metrics of an endpoint as handleSummary is given them: the Trend of
\* the response times, the error, success and timeout counts, and the four
\* status counters
k6Metrics(name) ==
  [response_time |-> samples[name],
   errors |-> metrics[name].errorCount,
   success |-> metrics[name].successCount,
   timeouts |-> metrics[name].timeoutCount,
   counters |->
     [c \in StatusCounterNames |->
        SumOver(metrics[name].statusCodes,
                { s \in ResponseStatuses : StatusCounterOf(s) = c })]]

\* what extractEndpointMetrics makes of the metrics of one endpoint
\* (reporter.js:502-600)
extractEndpointMetrics(data) ==
  LET values == data.response_time
      sorted == sortAscending(values)
      length == Length(values)
      matching == { c \in DOMAIN data.counters : c \in StatusCodePattern }
  IN  [requests |-> length,
       success |-> data.success,
       errors |-> data.errors,
       timeouts |-> data.timeouts,
       responseTimes |-> values,
       avgResponseTime |->
         IF length > 0 THEN RoundDiv(SumValues(values), length) ELSE 0,
       minResponseTime |-> IF length > 0 THEN sorted[1] ELSE 0,
       maxResponseTime |-> IF length > 0 THEN sorted[length] ELSE 0,
       p95ResponseTime |->
         IF length > 0
           THEN ElementOrZero(sorted, PercentileIndex(length, 95)) ELSE 0,
       p99ResponseTime |->
         IF length > 0
           THEN ElementOrZero(sorted, PercentileIndex(length, 99)) ELSE 0,
       statusCodes |->
         [code \in { StatusCodeOf(c) : c \in matching } |->
            data.counters["status_" \o ToString(code)]]]

\* values of one field over the endpoints of a per-endpoint table, summed
SumField(table, field) ==
  SumOver([name \in DOMAIN table |-> table[name][field]], DOMAIN table)

\* sum of avg * requests over the endpoints (reporter.js:201, 665)
SumWeighted(table, avg, requests) ==
  SumOver([name \in DOMAIN table |-> table[name][avg] * table[name][requests]],
          DOMAIN table)

\* the per-endpoint histograms summed by code (reporter.js:205-207, 669-671)
MergeStatusCodes(table) ==
  [code \in UNION { DOMAIN table[name].statusCodes : name \in DOMAIN table } |->
     SumOver([name \in DOMAIN table |->
                IF code \in DOMAIN table[name].statusCodes
                  THEN table[name].statusCodes[code] ELSE 0],
             DOMAIN table)]

\* allResponseTimes: the response times of all endpoints together
MergeTrends(table) ==
  [d \in DOMAIN EmptyTrend |->
     SumOver([name \in DOMAIN table |-> table[name].responseTimes[d]],
             DOMAIN table)]

\* aggregateMetrics of handleSummary (reporter.js:652-697)
aggregateMetrics(endpoints) ==
  LET totalRequests == SumField(endpoints, "requests")
      totalResponseTime ==
        SumWeighted(endpoints, "avgResponseTime", "requests")
      allResponseTimes == MergeTrends(endpoints)
      sorted == sortAscending(allResponseTimes)
      length == Length(allResponseTimes)
  IN  [totalRequests |-> totalRequests,
       totalSuccess |-> SumField(endpoints, "success"),
       totalErrors |-> SumField(endpoints, "errors"),
       totalTimeouts |-> SumField(endpoints, "timeouts"),
       avgResponseTime |->
         IF totalRequests > 0
           THEN RoundDiv(totalResponseTime, totalRequests) ELSE 0,
       p95ResponseTime |->
         IF length > 0
           THEN ElementOrZero(sorted, PercentileIndex(length, 95)) ELSE 0,
       p99ResponseTime |->
         IF length > 0
           THEN ElementOrZero(sorted, PercentileIndex(length, 99)) ELSE 0,
       statusCodes |-> MergeStatusCodes(endpoints)]

\* MetricsTracker.getSummary (utils.js:67-84)
getSummary(m) ==
  [name \in DOMAIN m |->
     [requests |-> m[name].totalRequests,
      success |-> m[name].successCount,
      errors |-> m[name].errorCount,
      timeouts |-> m[name].timeoutCount,
      avgDuration |-> avgDuration(m[name]),
      minDuration |-> IF m[name].minDuration = Infinity
                        THEN 0 ELSE m[name].minDuration,
      maxDuration |-> m[name].maxDuration,
      statusCodes |-> m[name].statusCodes,
      errorCount |-> Len(m[name].errors)]]

\* a || b for numbers, with an absent field of data counting as undefined
FieldOr(data, field, b) ==
  IF field \in DOMAIN data /\ data[field] # 0 THEN data[field] ELSE b

\* the P95 column of printEndpointTable (reporter.js:110):
\* data.p95Duration || data.maxDuration || 0
P95Column(data) == FieldOr(data, "p95Duration", FieldOr(data, "maxDuration", 0))

\* Math.min and Math.max over the endpoints, from the given start
RECURSIVE FoldMin(_, _, _, _)
FoldMin(table, field, S, start) ==
  IF S = {} THEN start
  ELSE LET x == CHOOSE y \in S : TRUE
       IN  FoldMin(table, field, S \ {x}, MinOf(start, table[x][field]))

RECURSIVE FoldMax(_, _, _, _)
FoldMax(table, field, S, start) ==
  IF S = {} THEN start
  ELSE LET x == CHOOSE y \in S : TRUE
       IN  FoldMax(table, field, S \ {x}, MaxOf(start, table[x][field]))

\* TestReporter.calculateTotals (reporter.js:186-227)
calculateTotals(summary) ==
  LET totalRequests == SumField(summary, "requests")
      totalDuration == SumWeighted(summary, "avgDuration", "requests")
      minDuration == FoldMin(summary, "minDuration", DOMAIN summary, Infinity)
  IN  [totalRequests |-> totalRequests,
       totalSuccess |-> SumField(summary, "success"),
       totalErrors |-> SumField(summary, "errors"),
       totalTimeouts |-> SumField(summary, "timeouts"),
       avgDuration |->
         IF totalRequests > 0 THEN RoundDiv(totalDuration, totalRequests)
                              ELSE 0,
       minDuration |-> IF minDuration = Infinity THEN 0 ELSE minDuration,
       maxDuration |-> FoldMax(summary, "maxDuration", DOMAIN summary, 0),
       statusCodes |-> MergeStatusCodes(summary)]

\* ep.types[type] of analyzeFailures: how many of the error records of the
\* endpoint carry that type (reporter.js:296-307)
TypeCount(errors, type) ==
  Cardinality({ j \in DOMAIN errors : errors[j] = type })

\* the endpoints analyzeFailures can put first: those with the most error
\* records (reporter.js:296-325); "none" when there is no error record
MostFailedEndpoints(m) ==
  LET failed == { name \in DOMAIN m : Len(m[name].errors) > 0 }
  IN  IF failed = {} THEN {"none"}
      ELSE { name \in failed :
               \A other \in failed :
                 Len(m[name].errors) >= Len(m[other].errors) }

\* failureType of analyzeFailures for the error records of the most failed
\* endpoint (reporter.js:327-335)
failureType(errors) ==
  IF /\ TypeCount(errors, "timeout") # 0
     /\ 2 * TypeCount(errors, "timeout") > Len(errors)
    THEN "timeouts"
  ELSE IF TypeCount(errors, "server_error") # 0 THEN "server_errors"
  ELSE IF TypeCount(errors, "client_error") # 0 THEN "client_errors"
  ELSE "errors"

\* which sentence the recommendation ends with (reporter.js:337-345)
recommendation(type, timeoutCount) ==
  IF type = "timeouts" /\ timeoutCount > 0 THEN "timeouts"
  ELSE IF type = "server_errors" THEN "server_errors"
  ELSE IF type = "client_errors" THEN "client_errors"
  ELSE "none"

\* TestReporter.analyzeFailures (reporter.js:281-350) with `first` the
\* endpoint sorted first
analyzeFailures(m, summary, first) ==
  IF first = "none"
    THEN [hasFailures |-> FALSE, mostFailedEndpoint |-> "none",
          failureType |-> "errors", recommendation |-> "none"]
    ELSE [hasFailures |-> TRUE, mostFailedEndpoint |-> first,
          failureType |-> failureType(m[first].errors),
          recommendation |->
            recommendation(failureType(m[first].errors),
                           summary[first].timeouts)]

\* the limit on maxP95 in analyzePerformanceDegradation (reporter.js:273)
HighP95 == 15000

\* TestReporter.analyzePerformanceDegradation (reporter.js:249-278); the
\* error rate is compared with 0.05
analyzePerformanceDegradation(summary) ==
  LET totalRequests == SumField(summary, "requests")
      totalErrors == SumField(summary, "errors")
      maxP95 == FoldMax([name \in DOMAIN summary |->
                           [p95 |-> P95Column(summary[name])]],
                        "p95", DOMAIN summary, 0)
      highErrorRate == totalRequests > 0 /\ 100 * totalErrors > 5 * totalRequests
  IN  [degradationDetected |-> highErrorRate \/ maxP95 > HighP95,
       recommendation |-> IF highErrorRate THEN "error rate"
                          ELSE IF maxP95 > HighP95 THEN "response times"
                          ELSE "none"]

\* a response is recorded while the test runs: its status and duration go
\* into the metrics store (test.js:567-569) and its duration into the Trend
\* of the endpoint
RecordResponse(name, status, duration, most) ==
  /\ ~report.made
  /\ ~printed.made
  /\ executions < most
  /\ metrics' = recordRequest(metrics, name, status, duration)
  /\ samples' = AddSample(samples, name, duration)
  /\ executions' = executions + 1
  /\ UNCHANGED << vu, lastRequest, report, printed, breakerVars,
                  selectorVars, setupVars, targetVars >>

\* handleSummary (reporter.js:640-721): the per-endpoint metrics are
\* extracted and the aggregate block is computed from them
handleSummary ==
  /\ ~report.made
  /\ LET endpointMetrics ==
           [name \in DOMAIN samples |-> extractEndpointMetrics(k6Metrics(name))]
     IN  report' = [made |-> TRUE,
                    endpoints |-> endpointMetrics,
                    aggregate |-> aggregateMetrics(endpointMetrics)]
  /\ UNCHANGED << samples, printed, breakerVars, metricsVars, selectorVars,
                  setupVars, targetVars >>

\* teardown (test.js:578-596): printSummary prints the table and the
\* aggregate block, generateJsonReport adds the failure analysis
teardown ==
  /\ ~printed.made
  /\ LET summary == getSummary(metrics)
     IN  \E first \in MostFailedEndpoints(metrics) :
           printed' =
             [made |-> TRUE,
              table |-> [name \in DOMAIN summary |->
                           [p95 |-> P95Column(summary[name]),
                            max |-> summary[name].maxDuration]],
              totals |-> calculateTotals(summary),
              performanceAnalysis |-> analyzePerformanceDegradation(summary),
              failureAnalysis |-> analyzeFailures(metrics, summary, first)]
  /\ UNCHANGED << samples, report, breakerVars, metricsVars, selectorVars,
                  setupVars, targetVars >>

\* a short run over all endpoints, then the reports
NextReport ==
  \/ \E name \in EndpointNames, status \in ResponseStatuses,
        duration \in Durations :
       RecordResponse(name, status, duration, MaxExecutions)
  \/ handleSummary
  \/ teardown

SpecReport == InitMetrics /\ [][NextReport]_vars

\* a longer run against one endpoint that always answers 200, then the
\* reports
MaxSamples == 21

PercentileDurations == {50, 100}

NextPercentile ==
  \/ \E duration \in PercentileDurations :
       RecordResponse("List Users", 200, duration, MaxSamples)
  \/ handleSummary
  \/ teardown

SpecPercentile == InitMetrics /\ [][NextPercentile]_vars

\* a longer run against one endpoint that answers 200 or 500, quickly or
\* slowly, then the report of teardown
NextDegradation ==
  \/ \E status \in {200, 500}, duration \in {50, SlowDuration} :
       RecordResponse("List Users", status, duration, MaxSamples)
  \/ teardown

SpecDegradation == InitMetrics /\ [][NextDegradation]_vars

\* ---- whole iterations (test.js:405-438) ----

\* the passes of the loop that session o has still to begin
Remaining(o) ==
  IF pc[o] = "idle" THEN 0 ELSE requestsToMake[o] - 1 - i[o]

\* a new iteration of n requests starts only while all the requests of the
\* iterations under way, and its own, fit under MaxRequests, so that no
\* iteration is cut short by the bound
StartWholeIteration(s) ==
  /\ UNCHANGED targetVars
  /\ pc[s] = "idle"
  /\ \E n \in RequestCounts :
       /\ requestSequence + n
            + SumOver([o \in Sessions |-> Remaining(o)], Sessions \ {s})
            <= MaxRequests
       /\ execute(s, n, 0)

IterationStep(s) ==
  \/ StartWholeIteration(s)
  \/ AttemptReturns(s)
  \/ AttemptThrows(s)
  \/ Retry(s)
  \/ ThinkDone(s)

NextIteration ==
  \/ TickForever
  \/ \E s \in Sessions : IterationStep(s)

\* the sessions running whole iterations concurrently; k6 keeps scheduling
\* every session, and every attempt and every sleep ends
SpecIteration ==
  /\ Init
  /\ [][NextIteration]_vars
  /\ \A s \in Sessions : WF_vars(IterationStep(s))

\* ---- the selectors on their own ----

MaxCandidates == 3
Weights == {0, 1, 2}

\* the candidate lists tried: up to MaxCandidates items, weights >= 0, at
\* least one of them positive
CandidateLists ==
  { c \in UNION { [1..n -> [weight : Weights]] : n \in 1..MaxCandidates } :
      \E j \in DOMAIN c : c[j].weight > 0 }

InitSelect ==
  /\ BreakerIdle
  /\ MetricsIdle
  /\ candidates \in CandidateLists
  /\ draw \in Draws
  /\ selected = [by |-> "none", item |-> 0, raised |-> FALSE]
  /\ SetupIdle
  /\ TargetIdle
  /\ ReportIdle

SelectEndpoint ==
  /\ selected.by = "none"
  /\ selected' = [by |-> "selectEndpoint",
                  item |-> selectEndpoint(candidates, draw),
                  raised |-> selectorThrows(candidates)]
  /\ UNCHANGED << candidates, draw, breakerVars, metricsVars, setupVars,
                  targetVars, reportVars >>

SelectUserProfile ==
  /\ selected.by = "none"
  /\ selected' = [by |-> "selectUserProfile",
                  item |-> selectUserProfile(candidates, draw),
                  raised |-> selectorThrows(candidates)]
  /\ UNCHANGED << candidates, draw, breakerVars, metricsVars, setupVars,
                  targetVars, reportVars >>

NextSelect ==
  \/ SelectEndpoint
  \/ SelectUserProfile

SpecSelect == InitSelect /\ [][NextSelect]_vars

\* the selectors given any list, the empty one included
InitSelectAny ==
  /\ BreakerIdle
  /\ MetricsIdle
  /\ candidates \in CandidateLists \cup { << >> }
  /\ draw \in Draws
  /\ selected = [by |-> "none", item |-> 0, raised |-> FALSE]
  /\ SetupIdle
  /\ TargetIdle
  /\ ReportIdle

SpecSelectAny == InitSelectAny /\ [][NextSelect]_vars

\* the selectors given a list nobody filtered: not empty, any weights >= 0,
\* all of them 0 included
UnfilteredLists ==
  UNION { [1..n -> [weight : Weights]] : n \in 1..MaxCandidates }

InitSelectUnfiltered ==
  /\ BreakerIdle
  /\ MetricsIdle
  /\ candidates \in UnfilteredLists
  /\ draw \in Draws
  /\ selected = [by |-> "none", item |-> 0, raised |-> FALSE]
  /\ SetupIdle
  /\ TargetIdle
  /\ ReportIdle

SpecSelectUnfiltered == InitSelectUnfiltered /\ [][NextSelect]_vars

\* ---- properties ----

Total(cb) == cb.errorCount + cb.successCount

\* this step is an outcome update of the breaker
OutcomeUpdate == Total(circuitBreaker') = Total(circuitBreaker) + 1

\* errorCount/(errorCount+successCount) >= threshold and
\* errorCount+successCount >= minSampleSize
OpeningCondition(cb) ==
  /\ cb.errorCount * cb.threshold.den >= cb.threshold.num * Total(cb)
  /\ Total(cb) >= cb.minSampleSize

CooldownElapsed == now - circuitBreaker.lastTriggeredAt >= circuitBreaker.resetAfter

\* session s makes an execute call in this step: the only step a session
\* takes when it is between iterations or in its think time
Calls(s) ==
  /\ pc[s] \in {"idle", "think"}
  /\ << pc[s], requestsToMake[s], i[s], attempts[s], lastOutcome[s] >>' #
       << pc[s], requestsToMake[s], i[s], attempts[s], lastOutcome[s] >>

\* the execute call of session s ends in this step after an attempt
Finishes(s) == pc[s] = "inflight" /\ pc'[s] \in {"think", "idle"}

\* session s sends a request to the target in this step
Sends(s) == pc[s] # "inflight" /\ pc'[s] = "inflight"

\* C1: after every outcome update the breaker is open whenever the error rate
\* is at least the threshold over at least minSampleSize samples, and an
\* update of a closed breaker after which one of the two fails leaves it closed.
C1_OpenIffCondition ==
  [][OutcomeUpdate =>
       /\ OpeningCondition(circuitBreaker') => circuitBreaker'.isOpen
       /\ (~circuitBreaker.isOpen /\ ~OpeningCondition(circuitBreaker'))
            => ~circuitBreaker'.isOpen]_vars

C1_Witness ==
  /\ circuitBreaker.isOpen
  /\ circuitBreaker.threshold = [num |-> 1, den |-> 2]
  /\ circuitBreaker.minSampleSize = 2
  /\ circuitBreaker.errorCount = 1
  /\ circuitBreaker.successCount = 1

\* C2: an execute call made while the breaker is open and the cooldown has not
\* elapsed sends no request, changes none of the breaker's fields, of
\* requestSequence, sessionErrors and sessionSuccesses, and returns.
C2_SkipIsNoOp ==
  [][\A s \in Sessions :
       (Calls(s) /\ circuitBreaker.isOpen /\ ~CooldownElapsed) =>
         /\ UNCHANGED << circuitBreaker, requestSequence, sessionErrors,
                         sessionSuccesses >>
         /\ ~Sends(s)
         /\ pc'[s] \in {"think", "idle"}]_vars

C2_Witness ==
  \E s \in Sessions :
    /\ lastOutcome[s].kind = "skipped"
    /\ circuitBreaker.isOpen
    /\ requestSequence > 0

\* C3 as claimed: the first execute call made while the breaker is open and the
\* cooldown has elapsed closes the breaker with both counts at 0 and sends its
\* request, and when that call ends errorCount+successCount is exactly 1.
C3_CloseThenCountOne ==
  [][\A s \in Sessions :
       /\ (Calls(s) /\ circuitBreaker.isOpen /\ CooldownElapsed) =>
            /\ ~circuitBreaker'.isOpen
            /\ circuitBreaker'.errorCount = 0
            /\ circuitBreaker'.successCount = 0
            /\ Sends(s)
       /\ (Finishes(s) /\ s \in closers) => Total(circuitBreaker') = 1]_vars

\* C3 amended: as C3, but the count is exactly 1 when the call ends provided no
\* other session reported an outcome between the close and that end.
C3_CloseThenCountOneAlone ==
  [][\A s \in Sessions :
       /\ (Calls(s) /\ circuitBreaker.isOpen /\ CooldownElapsed) =>
            /\ ~circuitBreaker'.isOpen
            /\ circuitBreaker'.errorCount = 0
            /\ circuitBreaker'.successCount = 0
            /\ Sends(s)
       /\ (Finishes(s) /\ s \in closers /\ s \notin interfered)
            => Total(circuitBreaker') = 1]_vars

C3_Witness ==
  \E s \in Sessions :
    /\ s \in closers
    /\ s \notin interfered
    /\ lastOutcome[s].kind \in {"returned", "threw"}
    /\ Total(circuitBreaker) = 1

\* C4: the trigger fires only while the breaker is closed: an outcome reported
\* while it is open leaves lastTriggeredAt alone and emits no diagnostic, so
\* the trigger fires at most once per sampling window.
C4_TriggerOnlyWhileClosed ==
  [][(OutcomeUpdate /\ circuitBreaker.isOpen) =>
       /\ circuitBreaker'.lastTriggeredAt = circuitBreaker.lastTriggeredAt
       /\ triggered' = triggered
       /\ triggered' <= 1]_vars

\* C5: no session sends a request to the target while the breaker is open and
\* its cooldown has not elapsed.
C5_NoSendWhileOpen ==
  [][\A s \in Sessions :
       Sends(s) =>
         ~(/\ circuitBreaker'.isOpen
           /\ now - circuitBreaker'.lastTriggeredAt < circuitBreaker'.resetAfter)]_vars

\* C7 as claimed: once the breaker has opened and only successes have been fed
\* since, no success takes the breaker from closed to open, whatever the
\* threshold and minSampleSize.
C7_SuccessesNeverReopen ==
  [][(/\ feed = "only successes"
      /\ circuitBreaker'.successCount = circuitBreaker.successCount + 1)
       => ~(~circuitBreaker.isOpen /\ circuitBreaker'.isOpen)]_vars

\* C7 amended: the same for every threshold greater than 0.
C7_SuccessesNeverReopenPositive ==
  [][(/\ circuitBreaker.threshold.num > 0
      /\ feed = "only successes"
      /\ circuitBreaker'.successCount = circuitBreaker.successCount + 1)
       => ~(~circuitBreaker.isOpen /\ circuitBreaker'.isOpen)]_vars

C7_Witness ==
  /\ circuitBreaker.threshold.num > 0
  /\ feed = "only successes"
  /\ ~circuitBreaker.isOpen
  /\ circuitBreaker.successCount >= 1
  /\ circuitBreaker.successCount >= circuitBreaker.minSampleSize

\* the classification of an outcome: a transport failure or status 0 is a
\* TIMEOUT, a status >= 400 an HTTP error, no response at all a failure,
\* anything else a SUCCESS
Classification(outcome) ==
  IF outcome.kind = "threw" \/ outcome.value = 0 THEN "TIMEOUT"
  ELSE IF outcome.value = NullResult THEN "FAILED"
  ELSE IF outcome.value >= 400 THEN "HTTP_ERROR"
  ELSE "SUCCESS"

\* C8: every execution that is not skipped updates the breaker with the verdict
\* of the classification: only a SUCCESS increments successCount, everything
\* else increments errorCount.
C8_VerdictIsClassification ==
  [][\A s \in Sessions :
       Finishes(s) =>
         IF Classification(lastOutcome'[s]) = "SUCCESS"
           THEN /\ circuitBreaker'.successCount = circuitBreaker.successCount + 1
                /\ circuitBreaker'.errorCount = circuitBreaker.errorCount
           ELSE /\ circuitBreaker'.errorCount = circuitBreaker.errorCount + 1
                /\ circuitBreaker'.successCount = circuitBreaker.successCount]_vars

\* C6: traffic resumes after a cooldown: when the breaker is open (and the
\* model's budget of requests is not used up), it eventually is closed again
\* with a further request sent.
C6_TrafficResumes ==
  \A n \in 0..(MaxRequests - 1) :
    (circuitBreaker.isOpen /\ requestSequence = n)
      ~> (~circuitBreaker.isOpen /\ requestSequence > n)

C6_Witness ==
  /\ ~circuitBreaker.isOpen
  /\ closers # {}
  /\ \E s \in closers : pc[s] = "inflight"

RECURSIVE SumSeq(_)
SumSeq(q) == IF q = << >> THEN 0 ELSE Head(q) + SumSeq(Tail(q))

\* C9: an execute call whose operation failed on every attempt made exactly
\* maxRetries+1 attempts and maxRetries sleeps (none for maxRetries = 0), and
\* the error that reaches the caller is the one the last attempt raised.
C9_ExhaustedRetries ==
  \A s \in Sessions :
    lastOutcome[s].kind = "threw" =>
      /\ attempts[s] = scenario.maxRetries + 1
      /\ failures[s] = attempts[s]
      /\ Len(sleeps[s]) = scenario.maxRetries
      /\ lastOutcome[s].error = lastThrown[s]
      /\ lastOutcome[s].error \in ErrorValues

C9_Witness ==
  /\ lastOutcome[1].kind = "threw"
  /\ scenario.maxRetries = 2
  /\ attempts[1] = 3

\* C10: an operation that fails k <= maxRetries times and then succeeds is
\* attempted k+1 times and its result returned; the sleep before retry i is
\* backoffMs*2^i, so the sleeps total the sum of backoffMs*2^i for i in [0,k).
C10_BackoffSchedule ==
  \A s \in Sessions :
    lastOutcome[s].kind = "returned" =>
      LET k == failures[s]
      IN  /\ k <= scenario.maxRetries
          /\ attempts[s] = k + 1
          /\ lastOutcome[s].value \in ResultValues
          /\ lastOutcome[s].error = NoError
          /\ sleeps[s] = [j \in 1..k |-> scenario.backoffMs * (2 ^ (j - 1))]
          /\ SumSeq(sleeps[s]) = scenario.backoffMs * ((2 ^ k) - 1)

C10_Witness ==
  /\ lastOutcome[1].kind = "returned"
  /\ failures[1] = 3
  /\ sleeps[1] = << 2, 4, 8 >>

\* the execute call of session s ends in this step after an attempt that
\* returned an error status
ReturnsHttpError(s) ==
  /\ pc[s] = "inflight"
  /\ lastOutcome'[s] # lastOutcome[s]
  /\ lastOutcome'[s].kind = "returned"
  /\ lastOutcome'[s].value # NullResult
  /\ lastOutcome'[s].value >= 400

\* C11: an attempt that returns a response with an error status (>= 400) is
\* not retried: the call ends with it, no attempt and no backoff sleep is
\* added, so a call whose first attempt returns it made exactly one attempt
\* and took no sleep; a backoff sleep begins only after an attempt has raised.
C11_HttpErrorsNotRetried ==
  [][\A s \in Sessions :
       /\ ReturnsHttpError(s) =>
            /\ pc'[s] \in {"think", "idle"}
            /\ attempts'[s] = attempts[s]
            /\ sleeps'[s] = sleeps[s]
            /\ failures[s] = 0 => (attempts'[s] = 1 /\ sleeps'[s] = << >>)
       /\ (pc[s] # "backoff" /\ pc'[s] = "backoff") =>
            /\ lastThrown'[s] \in ErrorValues
            /\ failures'[s] = failures[s] + 1]_vars

C11_Witness ==
  /\ lastOutcome[1].kind = "returned"
  /\ lastOutcome[1].value = 500
  /\ scenario.maxRetries = 3
  /\ attempts[1] = 1
  /\ sleeps[1] = << >>

ThinkBegins(s) ==
  pc'[s] = "think" /\ (pc[s] # "think" \/ i'[s] # i[s])

\* C17: within one session execution is strictly sequential: a session starts
\* a new request only when it has none under way, and a call that has sent a
\* request is left (for think time or the end of the iteration) only in the
\* step in which its last attempt ends and its outcome is reported to the
\* breaker, never while it awaits a response or sleeps in backoff.
C17_SessionIsSequential ==
  [][\A s \in Sessions :
       /\ (Sends(s) /\ requestSequence' # requestSequence)
            => pc[s] \in {"idle", "think"}
       /\ (pc[s] \in {"inflight", "backoff"} /\ pc'[s] \in {"think", "idle"}) =>
            /\ pc[s] = "inflight"
            /\ OutcomeUpdate
            /\ lastOutcome'[s].kind \in {"returned", "threw"}
       /\ ThinkBegins(s) =>
            \/ pc[s] = "inflight" /\ OutcomeUpdate
            \/ pc[s] \in {"idle", "think"} /\ lastOutcome'[s].kind = "skipped"]_vars

C17_Witness ==
  \E s \in Sessions :
    /\ pc[s] = "think"
    /\ Len(sleeps[s]) = 1
    /\ lastOutcome[s].kind = "returned"
    /\ \E o \in Sessions \ {s} : pc[o] = "backoff"

\* ---- properties of the metrics variant ----

\* a counter of the store for an endpoint name; 0 while nothing is recorded
Count(m, name, field) == IF name \in DOMAIN m THEN m[name][field] ELSE 0

StatusCount(m, name, status) ==
  IF name \in DOMAIN m THEN m[name].statusCodes[status] ELSE 0

\* a makeRequest call ends in this step
RequestEnds == executions' = executions + 1

\* the response of this step has this status
RespondsWith(status) ==
  \E name \in EndpointNames :
    StatusCount(metrics', name, status) = StatusCount(metrics, name, status) + 1

\* this counter of this endpoint goes up by one in this step
Incremented(name, field) ==
  Count(metrics', name, field) = Count(metrics, name, field) + 1

\* C13: a request whose sending fails at transport level (no response, status
\* 0) or fatally while it is built or sent is recorded as a failed outcome:
\* totalRequests, errorCount and timeoutCount of its endpoint each go up by 1.
C13_FailedRequestsRecorded ==
  [][(RequestEnds /\ (lastRequest'.raised \/ RespondsWith(0))) =>
       \E name \in EndpointNames :
         /\ Incremented(name, "totalRequests")
         /\ Incremented(name, "errorCount")
         /\ Incremented(name, "timeoutCount")]_vars

\* the step records a response of this status and duration for this name as
\* C14 describes
RecordedAs(name, status, duration) ==
  LET old == IF name \in DOMAIN metrics THEN metrics[name] ELSE NewMetric
      new == metrics'[name]
  IN  /\ name \in DOMAIN metrics'
      /\ new.totalRequests = old.totalRequests + 1
      /\ new.totalDuration = old.totalDuration + duration
      /\ new.minDuration = MinOf(old.minDuration, duration)
      /\ new.maxDuration = MaxOf(old.maxDuration, duration)
      /\ new.statusCodes = [old.statusCodes EXCEPT ![status] = @ + 1]
      /\ IF status = 0
           THEN /\ new.timeoutCount = old.timeoutCount + 1
                /\ new.errorCount = old.errorCount + 1
                /\ new.successCount = old.successCount
                /\ new.errors = Append(old.errors, "TIMEOUT")
         ELSE IF status >= 400
           THEN /\ new.timeoutCount = old.timeoutCount
                /\ new.errorCount = old.errorCount + 1
                /\ new.successCount = old.successCount
                /\ new.errors = Append(old.errors, "HTTP_" \o ToString(status))
         ELSE /\ new.timeoutCount = old.timeoutCount
              /\ new.errorCount = old.errorCount
              /\ new.successCount = old.successCount + 1
              /\ new.errors = old.errors

\* the entry of an endpoint for which exactly the responses 200, 500 and 0
\* were recorded, with durations adding up to 100 + 200 + 50
IsExample(data) ==
  /\ data.statusCodes =
       [c \in ResponseStatuses |-> IF c \in {200, 500, 0} THEN 1 ELSE 0]
  /\ data.totalDuration = 100 + 200 + 50

C15_VerdictsAgree ==
  [][(RequestEnds /\ lastRequest'.recorded) =>
       (lastRequest'.isSuccess <=>
          \E name \in EndpointNames : Incremented(name, "successCount"))]_vars

RECURSIVE SumTotalRequests(_, _)
SumTotalRequests(m, names) ==
  IF names = {} THEN 0
  ELSE LET name == CHOOSE n \in names : TRUE
       IN  m[name].totalRequests + SumTotalRequests(m, names \ {name})

\* requests of the breaker variant that were sent and have not ended yet
UnderWay == Cardinality({ s \in Sessions : pc[s] \in {"inflight", "backoff"} })

\* the breaker half of C16: while the breaker has never opened (so was never
\* reset), errorCount+successCount is the number of executions completed, and
\* requestSequence that number plus the executions under way.
C16_BreakerCountsAll ==
  feed = "never opened" =>
    /\ Total(circuitBreaker) = requestSequence - UnderWay
    /\ UnderWay = 0 => Total(circuitBreaker) = requestSequence

\* C16: no increment is lost under concurrent sessions: when the sessions
\* together have completed K executions (and the breaker was not reset),
\* errorCount+successCount is K, requestSequence is K once none is under way,
\* and the sum of totalRequests over the endpoints is K.
C16_NoLostIncrement ==
  /\ C16_BreakerCountsAll
  /\ SumTotalRequests(metrics, DOMAIN metrics) = executions

\* C18: a session that is to make n requests makes exactly n calls and takes
\* exactly n-1 think-time sleeps, none after the last call.
C18_CallsAndSleeps ==
  \A s \in Sessions :
    vu[s].finished =>
      /\ vu[s].calls = vu[s].requestsPerSession
      /\ vu[s].thinks = vu[s].requestsPerSession - 1

\* the numbers of requests the draw of test.js:553-555 can produce
DrawableCounts(profile) == { DrawRequestsPerSession(profile, k) : k \in Draws }

\* C19: with a profile selected, the number of requests of the session lies
\* in [min, max] of the profile's range, and every integer of that range,
\* max included, can be drawn.
C19_RequestsInRange ==
  \A s \in Sessions :
    vu[s].userProfile # NoProfile =>
      LET range == Profiles[vu[s].userProfile].requestsPerSession
      IN  /\ vu[s].requestsPerSession \in range.min .. range.max
          /\ DrawableCounts(Profiles[vu[s].userProfile])
               = range.min .. range.max

\* C20: for a candidate list with at least one item of positive weight and
\* every draw, a selector never returns an item of weight <= 0; when exactly
\* one item has a positive weight, that item is returned.
C20_NeverZeroWeight ==
  selected.by # "none" =>
    /\ candidates[selected.item].weight > 0
    /\ \A j \in DOMAIN candidates :
         (/\ candidates[j].weight > 0
          /\ \A o \in DOMAIN candidates \ {j} : candidates[o].weight <= 0)
           => selected.item = j

\* the cells of width 1 that the weights cut [0, sum of weights) into; a
\* uniform draw falls into each with the same probability, and the selector
\* returns the same item over the whole of a cell, the one of its midpoint
Cells(items) == 0 .. (SumWeights(items) - 1)

\* the item returned for a draw at the midpoint of cell j:
\* Math.random() = (2j+1) / (2 * sum of weights)
AtCell(items, j) == selectAt(items, 2 * j + 1, 2 * SumWeights(items))

\* the number of cells for which item idx is returned; its share of the
\* draws is this number over the sum of the weights
CellsOf(items, idx) ==
  Cardinality({ j \in Cells(items) : AtCell(items, j) = idx })

EightyTwenty == << [weight |-> 80], [weight |-> 20] >>

\* C21: the share of uniform draws for which a selector returns item i is
\* weight_i over the sum of the weights; with weights 80 and 20 the shares
\* are 0.8 and 0.2.
C21_SharesProportional ==
  selected.by # "none" =>
    /\ \A idx \in DOMAIN candidates :
         CellsOf(candidates, idx) = candidates[idx].weight
    /\ CellsOf(EightyTwenty, 1) = 80
    /\ CellsOf(EightyTwenty, 2) = 20
    /\ Cardinality(Cells(EightyTwenty)) = 100

C21_Witness ==
  /\ selected.by = "selectEndpoint"
  /\ Len(candidates) = 3
  /\ candidates[1].weight = 1
  /\ candidates[2].weight = 2
  /\ candidates[3].weight = 0
  /\ selected.item = 2

\* C22: a selector given an empty list fails with an error and returns no
\* value.
C22_EmptyListFails ==
  (selected.by # "none" /\ candidates = << >>) => selected.raised

\* the configured weight of the endpoint of that name
WeightOf(endpointName) ==
  LET j == CHOOSE x \in DOMAIN TargetEndpoints :
             TargetEndpoints[x].name = endpointName
  IN  TargetEndpoints[j].weight

Configured(endpointName) ==
  \E j \in DOMAIN TargetEndpoints : TargetEndpoints[j].name = endpointName

\* the name is not one single target mode accepts: not configured, or
\* configured with weight 0
NotTargetable(endpointName) ==
  ~Configured(endpointName) \/ WeightOf(endpointName) = 0

\* an iteration of session s runs its choice of endpoint in this step
Chooses(s) == pc[s] = "idle" /\ executing'[s] # executing[s]

\* C23: in single target mode, a name that is not configured or has weight 0
\* makes the iteration fail before any request: nothing is sent, and the
\* breaker, the request sequence and the metrics stay as they are; a valid
\* name is executed once per iteration, without weighted selection and
\* without think time.
C23_SingleTarget ==
  [][ target # NoTarget =>
        IF NotTargetable(target)
          THEN /\ ~Sends(1)
               /\ Chooses(1) => executing'[1].mode = "Error"
               /\ UNCHANGED << circuitBreaker, requestSequence, sessionErrors,
                               sessionSuccesses, metrics, lastOutcome >>
          ELSE /\ Chooses(1) =>
                    /\ executing'[1] = [name |-> target, mode |-> "target"]
                    /\ Calls(1)
               /\ Calls(1) => pc[1] = "idle" /\ requestsToMake'[1] <= 1
               /\ Finishes(1) => pc'[1] = "idle"
               /\ pc'[1] # "think"
               /\ executing'[1].mode \in {"none", "target"} ]_vars

C23_Witness ==
  /\ target = "Create User"
  /\ executing[1] = [name |-> "Create User", mode |-> "target"]
  /\ lastOutcome[1].kind = "returned"
  /\ requestSequence = 2
  /\ pc[1] = "idle"

\* C24 as stated: an endpoint of weight 0 is never drawn by the weighted
\* selection, and an iteration that has it as the single target executes it.
C24_ZeroWeightTargetable ==
  [][ /\ executing'[1].mode = "selectWeightedEndpoint"
          => WeightOf(executing'[1].name) > 0
      /\ (Configured(target) /\ WeightOf(target) = 0 /\ Chooses(1))
          => /\ executing'[1] = [name |-> target, mode |-> "target"]
             /\ Calls(1) ]_vars

\* C24, amended: an endpoint of weight 0 is never drawn by the weighted
\* selection, and it cannot be the single target either: an iteration that
\* names it fails before any request.
C24_ZeroWeightExcluded ==
  [][ /\ executing'[1].mode = "selectWeightedEndpoint"
          => WeightOf(executing'[1].name) > 0
      /\ (Configured(target) /\ WeightOf(target) = 0)
          => /\ ~Sends(1)
             /\ ~Calls(1)
             /\ Chooses(1) => executing'[1].mode = "Error" ]_vars

C24_Witness ==
  /\ target = "Delete User"
  /\ executing[1] = [name |-> "Delete User", mode |-> "Error"]
  /\ requestSequence = 0

\* a request has gone out, to verify or as load
RequestsIssued(r) ==
  \/ r.verificationRequests > 0
  \/ r.loadRequests > 0
  \/ r.phase \in {"auth", "health", "load"}

\* the credential of the selected auth type is missing
CredentialMissing(cfg) ==
  /\ cfg.authEnabled
  /\ cfg.authType \in {"bearer", "basic", "apikey"}
  /\ ~cfg.credential

\* C25: with no base URL, no endpoints, no endpoint of positive weight, an
\* unknown scenario, a missing credential for the selected auth type (bearer,
\* basic or API key) or a threshold without rules, the setup that validates
\* the configuration (test.js:270-383) raises before any request: no
\* verification request and no load request is ever issued.
C25_InvalidConfigNeverRuns ==
  (/\ run.variant = "breaker"
   /\ \/ ~config.baseUrl
      \/ config.endpoints # "active"
      \/ ~config.scenario
      \/ CredentialMissing(config)
      \/ ~config.thresholds)
    => /\ ~RequestsIssued(run)
       /\ run.phase \in {"init", "setup", "aborted"}

\* C26: a health check that failed (unexpected status, or an exception) never
\* aborts the run: if the run was aborted, that was for another reason.
C26_HealthFailureIsWarning ==
  (run.healthAsked /\ run.healthStatus # ExpectedStatus
     /\ run.phase \notin {"health"})
    => /\ run.cause # "health"
       /\ run.phase = "aborted" => run.authResult = "failed"
       /\ run.phase = "load" => run.warned

\* the authentication check is switched off
AuthCheckDisabled(r, cfg) ==
  IF r.variant = "breaker"
    THEN ~cfg.verification \/ ~cfg.authenticator
    ELSE cfg.authType = "none"

\* C27: when the authentication check is enabled and comes back with any
\* status but the expected one, or raises, setup aborts and no load request
\* is ever sent; when it is disabled no check is made and setup does not
\* abort for it.
C27_AuthFailureAborts ==
  /\ (run.authAsked /\ run.phase # "auth"
        /\ run.authStatus # ExpectedStatus)
       => /\ run.loadRequests = 0
          /\ run.phase \in {"health", "aborted"}
          /\ run.phase = "aborted" => run.cause = "auth"
  /\ AuthCheckDisabled(run, config)
       => /\ ~run.authAsked
          /\ run.cause # "auth"

\* how many of the values are smaller than v
Below(values, v) == SumOver(values, { u \in DOMAIN values : u < v })

\* the value at position index, counted from 0, when the values are put in
\* ascending order
ElementAtRank(values, index) ==
  CHOOSE v \in DOMAIN values :
    Below(values, v) <= index /\ index < Below(values, v) + values[v]

\* the metrics of an endpoint nothing was recorded for
NothingRecorded ==
  [response_time |-> EmptyTrend, errors |-> 0, success |-> 0, timeouts |-> 0,
   counters |-> [c \in StatusCounterNames |-> 0]]

\* C28: the p95 and p99 reported for an endpoint with n recorded durations
\* are the elements at index floor(n*0.95) and floor(n*0.99) of the sorted
\* durations, both indices being below n, and both are 0 for n = 0; this
\* holds for the report of handleSummary and for the P95 column of the
\* console table.
C28_Percentiles ==
  /\ extractEndpointMetrics(NothingRecorded).p95ResponseTime = 0
  /\ extractEndpointMetrics(NothingRecorded).p99ResponseTime = 0
  /\ report.made =>
       \A name \in DOMAIN report.endpoints :
         LET n == Length(samples[name])
         IN  /\ n >= 1
             /\ (n * 95) \div 100 < n
             /\ (n * 99) \div 100 < n
             /\ report.endpoints[name].p95ResponseTime
                  = ElementAtRank(samples[name], (n * 95) \div 100)
             /\ report.endpoints[name].p99ResponseTime
                  = ElementAtRank(samples[name], (n * 99) \div 100)
  /\ printed.made =>
       \A name \in DOMAIN printed.table :
         printed.table[name].p95
           = ElementAtRank(samples[name],
                           (Length(samples[name]) * 95) \div 100)

\* the status codes of a histogram, summed
HistogramTotal(histogram) == SumOver(histogram, DOMAIN histogram)

\* the smallest and the largest of a field over the endpoints
Smallest(table, field) ==
  CHOOSE v \in { table[name][field] : name \in DOMAIN table } :
    \A name \in DOMAIN table : v <= table[name][field]

Largest(table, field) ==
  CHOOSE v \in { table[name][field] : name \in DOMAIN table } :
    \A name \in DOMAIN table : v >= table[name][field]

\* C29: the aggregate block is the per-endpoint data combined: the totals of
\* requests, successes, errors and timeouts are the sums over the endpoints;
\* the merged histogram is the per-endpoint histograms summed by code, and
\* its counts sum to the total of requests; the average is the sum of
\* avgDuration * requests over the endpoints divided by the total of
\* requests; the overall min and max are the smallest per-endpoint min and
\* the largest per-endpoint max.
C29_AggregateIsCombination ==
  /\ (printed.made /\ DOMAIN metrics # {}) =>
       LET summary == getSummary(metrics)
           totals == printed.totals
       IN  /\ totals.totalRequests = SumField(summary, "requests")
           /\ totals.totalSuccess = SumField(summary, "success")
           /\ totals.totalErrors = SumField(summary, "errors")
           /\ totals.totalTimeouts = SumField(summary, "timeouts")
           /\ \A code \in DOMAIN totals.statusCodes :
                totals.statusCodes[code]
                  = SumOver([name \in DOMAIN summary |->
                               summary[name].statusCodes[code]],
                            DOMAIN summary)
           /\ HistogramTotal(totals.statusCodes) = totals.totalRequests
           /\ totals.avgDuration * totals.totalRequests
                = SumWeighted(summary, "avgDuration", "requests")
           /\ totals.minDuration = Smallest(summary, "minDuration")
           /\ totals.maxDuration = Largest(summary, "maxDuration")
  /\ (report.made /\ DOMAIN report.endpoints # {}) =>
       LET aggregate == report.aggregate
       IN  /\ aggregate.totalRequests = SumField(report.endpoints, "requests")
           /\ aggregate.totalSuccess = SumField(report.endpoints, "success")
           /\ aggregate.totalErrors = SumField(report.endpoints, "errors")
           /\ aggregate.totalTimeouts
                = SumField(report.endpoints, "timeouts")
           /\ HistogramTotal(aggregate.statusCodes) = aggregate.totalRequests
           /\ aggregate.avgResponseTime * aggregate.totalRequests
                = SumWeighted(report.endpoints, "avgResponseTime", "requests")

\* the error type is that of a response with a status from 500 on
IsServerError(type) == type \in { "HTTP_" \o ToString(c) : c \in 500..599 }

\* the dominant failure type of a list of error records
DominantFailure(errors) ==
  IF 2 * TypeCount(errors, "TIMEOUT") >= Len(errors) THEN "timeouts"
  ELSE IF \E j \in DOMAIN errors : IsServerError(errors[j])
    THEN "server_errors"
  ELSE "client_errors"

\* C30: the failure analysis names as most failed an endpoint with the
\* largest number of error records, classifies its failures as timeouts if
\* at least half of its error records are timeouts, else as server errors if
\* one of them is a 5xx, else as client errors, and the recommendation is
\* the one of that class.
C30_FailureAnalysis ==
  (printed.made /\ printed.failureAnalysis.hasFailures) =>
    LET analysis == printed.failureAnalysis
        errors == metrics[analysis.mostFailedEndpoint].errors
    IN  /\ \A name \in DOMAIN metrics :
             Len(errors) >= Len(metrics[name].errors)
        /\ analysis.failureType = DominantFailure(errors)
        /\ analysis.recommendation = DominantFailure(errors)

\* the metric `after` has grown out of the metric `before`: no counter and no
\* histogram bucket is smaller, and the error list has only been appended to
Grown(before, after) ==
  /\ after.totalRequests >= before.totalRequests
  /\ after.successCount >= before.successCount
  /\ after.errorCount >= before.errorCount
  /\ after.timeoutCount >= before.timeoutCount
  /\ after.totalDuration >= before.totalDuration
  /\ \A status \in DOMAIN before.statusCodes :
       after.statusCodes[status] >= before.statusCodes[status]
  /\ Len(after.errors) >= Len(before.errors)
  /\ SubSeq(after.errors, 1, Len(before.errors)) = before.errors

\* a report is produced in this step
Reports == report' # report \/ printed' # printed

\* C31: the per-endpoint metrics only grow, a recordRequest for one endpoint
\* leaves the metric of every other endpoint as it is, and producing the
\* summary, the totals, the analyses and the reports leaves the metrics
\* store as it is.
C31_MetricsOnlyGrow ==
  [][ /\ \A name \in DOMAIN metrics :
           /\ name \in DOMAIN metrics'
           /\ Grown(metrics[name], metrics'[name])
      /\ \E name \in EndpointNames :
           \A other \in (DOMAIN metrics) \ {name} :
             metrics'[other] = metrics[other]
      /\ Reports => metrics' = metrics ]_vars

C31_Witness ==
  /\ printed.made
  /\ report.made
  /\ Cardinality(DOMAIN metrics) = 2
  /\ \E name \in DOMAIN metrics :
       /\ metrics[name].totalRequests = 2
       /\ metrics[name].errorCount = 1

\* C35: after any sequence of recordRequest calls, for every endpoint:
\* totalRequests = successCount + errorCount, timeoutCount <= errorCount,
\* timeoutCount is the histogram count of status 0, the histogram counts sum
\* to totalRequests, there are errorCount error records, and
\* minDuration <= maxDuration.
C35_MetricIsConsistent ==
  \A name \in DOMAIN metrics :
    LET metric == metrics[name]
    IN  /\ metric.totalRequests = metric.successCount + metric.errorCount
        /\ metric.timeoutCount <= metric.errorCount
        /\ metric.timeoutCount = metric.statusCodes[0]
        /\ SumOver(metric.statusCodes, DOMAIN metric.statusCodes)
             = metric.totalRequests
        /\ Len(metric.errors) = metric.errorCount
        /\ metric.totalRequests >= 1
        /\ metric.minDuration <= metric.maxDuration

C35_Witness ==
  \E name \in DOMAIN metrics :
    /\ metrics[name].totalRequests = 3
    /\ metrics[name].timeoutCount = 1
    /\ metrics[name].successCount = 1
    /\ metrics[name].minDuration < metrics[name].maxDuration

\* the weights of the first `upto` items, summed
Cumulative(items, upto) == SumWeights(SubSeq(items, 1, upto))

\* the draw, Math.random() * totalWeight, minus the weights of the first
\* `upto` items, in RandomSteps-ths
Remainder(items, k, upto) ==
  k * SumWeights(items) - RandomSteps * Cumulative(items, upto)

\* C32: for a draw in [0, sum of weights) a selector returns the first item,
\* in the given order, at which the draw minus the weights so far is <= 0;
\* a remainder of exactly 0 selects that item, not the next one.
C32_FirstNonPositiveRemainder ==
  selected.by # "none" =>
    /\ selected.item \in DOMAIN candidates
    /\ Remainder(candidates, draw, selected.item) <= 0
    /\ \A j \in 1 .. (selected.item - 1) : Remainder(candidates, draw, j) > 0

\* a draw that lands exactly on the boundary between two items
C32_Witness ==
  /\ selected.by = "selectEndpoint"
  /\ draw > 0
  /\ selected.item < Len(candidates)
  /\ candidates[selected.item + 1].weight > 0
  /\ Remainder(candidates, draw, selected.item) = 0

\* C33: given a non-empty list whose weights are all 0, a selector returns
\* the first item; given any non-empty list and any draw it returns a member
\* of the list.
C33_DegeneratesToFirst ==
  selected.by # "none" =>
    /\ ~selected.raised
    /\ selected.item \in DOMAIN candidates
    /\ (\A j \in DOMAIN candidates : candidates[j].weight = 0)
         => selected.item = 1

C33_Witness ==
  /\ selected.by = "selectUserProfile"
  /\ Len(candidates) = 3
  /\ \A j \in DOMAIN candidates : candidates[j].weight = 0
  /\ draw > 0
  /\ selected.item = 1

\* the p95 of an endpoint: the element at index floor(n * 0.95) of its
\* sorted durations
P95Of(name) ==
  ElementAtRank(samples[name], (Length(samples[name]) * 95) \div 100)

\* total errors / total requests > 5%, 0 requests counting as a rate of 0
ErrorRateAboveFivePercent ==
  LET requests == SumOver([name \in DOMAIN metrics |->
                             metrics[name].totalRequests], DOMAIN metrics)
      errorTotal == SumOver([name \in DOMAIN metrics |->
                               metrics[name].errorCount], DOMAIN metrics)
  IN  requests > 0 /\ 100 * errorTotal > 5 * requests

\* C34: the degradation analysis flags degradation exactly when the overall
\* error rate is strictly above 5% or the p95 of some endpoint is strictly
\* above 15000 ms.
C34_DegradationFlag ==
  printed.made =>
    (printed.performanceAnalysis.degradationDetected
       <=> \/ ErrorRateAboveFivePercent
           \/ \E name \in DOMAIN samples : P95Of(name) > 15000)

\* C36: whenever the breaker is closed, its counts do not satisfy the opening
\* condition (too few samples, or an error rate below the threshold); and
\* errorCount and successCount never decrease, except that both go to 0 in
\* the step that closes the open breaker.
C36_ClosedMeansBelowThreshold ==
  [][ /\ ~circuitBreaker.isOpen => ~OpeningCondition(circuitBreaker)
      /\ ~circuitBreaker'.isOpen => ~OpeningCondition(circuitBreaker')
      /\ \/ /\ circuitBreaker'.errorCount >= circuitBreaker.errorCount
            /\ circuitBreaker'.successCount >= circuitBreaker.successCount
         \/ /\ circuitBreaker.isOpen
            /\ ~circuitBreaker'.isOpen
            /\ circuitBreaker'.errorCount = 0
            /\ circuitBreaker'.successCount = 0 ]_vars

\* a closed breaker with enough samples and an error among them, in a
\* window that began when the breaker was closed again
C36_Witness ==
  /\ ~circuitBreaker.isOpen
  /\ Total(circuitBreaker) >= circuitBreaker.minSampleSize
  /\ circuitBreaker.errorCount >= 1
  /\ feed # "never opened"

\* C37: every execute call that the breaker did not skip adds exactly one to
\* sessionSuccesses + sessionErrors, the total that teardown reports, whatever
\* its result was (a result without a response included).
C37_EveryCallCounted ==
  [][\A s \in Sessions :
       Finishes(s) =>
         sessionSuccesses' + sessionErrors' = sessionSuccesses + sessionErrors + 1]_vars

\* C38: every iteration ends, and an iteration of n requests under a retry
\* policy of maxRetries makes at most n * (maxRetries + 1) attempts, sleeps at
\* most n * maxRetries times for a backoff and at most n - 1 times for think
\* time, whatever the attempts do and whether the breaker is open or closed.
C38_IterationTerminates ==
  /\ [](\A s \in Sessions :
         pc[s] # "idle" =>
           /\ iteration[s].attempts
                <= requestsToMake[s] * (scenario.maxRetries + 1)
           /\ iteration[s].backoffs <= requestsToMake[s] * scenario.maxRetries
           /\ iteration[s].thinks <= requestsToMake[s] - 1)
  /\ \A s \in Sessions : (pc[s] # "idle") ~> (pc[s] = "idle")

\* the last attempt of an iteration of two requests in flight, every attempt
\* before it having failed: all the attempts and sleeps the policy allows
C38_Witness ==
  \E s \in Sessions :
    /\ pc[s] = "inflight"
    /\ requestsToMake[s] = 2
    /\ i[s] = 1
    /\ scenario.maxRetries = 1
    /\ iteration[s] = [attempts |-> 4, backoffs |-> 2, thinks |-> 1]

====
